---- MODULE Spec2Model ----
(***************************************************************************)
(* Model of the insight extraction service (app/services/extractor.py):    *)
(* the truncation of long texts, the attribute merger and the entity       *)
(* deduplicator; of the schema registry (app/templates/                    *)
(* extraction_templates.py); of the report (app/services/                  *)
(* report_generator.py) and of the steps of an analysis request            *)
(* (app/api/routes/analyze.py).                                            *)
(*                                                                         *)
(* Data representation                                                     *)
(*   - a Python str is the sequence of its code points (naturals), so that *)
(*     strip(), lower(), str(), sorted() and ", ".join() are computed on   *)
(*     characters as Python computes them;                                 *)
(*   - an attribute value is a tagged tuple: <<"str", s>>, <<"int", n>> or *)
(*     <<"none">>;                                                         *)
(*   - an attribute key is the sequence of its pieces: <<"role">> is the   *)
(*     key "role", <<"role", "_variations">> is "role_variations";         *)
(*     f"{key}_variations" is Append(key, "_variations");                  *)
(*   - a dict is a function from keys to values (dict equality in Python   *)
(*     does not depend on insertion order).                                *)
(***************************************************************************)
EXTENDS Integers, Sequences, FiniteSets, TLC

VARIABLES
    pc,              \* position of the run being modelled
    all_attributes,  \* argument of _merge_attributes
    merged,          \* its result
    objects,         \* the Extraction objects, by reference (1, 2, ...)
    extractions,     \* result.extractions: a list of references into objects
    given,           \* the entities handed to the latest deduplication, by value
    text,            \* the text argument of extract_insights
    lx_text,         \* the text handed to lx.extract (text_or_documents)
    TEMPLATES,       \* the module-level template registry
    doc_type,        \* argument of the latest direct schema lookup
    template,        \* result of the latest get_template call
    category_order,  \* result of the latest _get_category_order call
    requests,        \* the analysis requests in progress, by request id
    calls,           \* the calls of POST /analyze, by arrival
    upload_dirs,     \* UPLOAD_DIR: the job directories in it, by job id
    report_dirs,     \* REPORT_DIR: the job directories in it, by job id
    now,             \* datetime.now(), in hours
    fetched          \* the latest answer of GET /report/{job_id}

extractorVars == <<all_attributes, merged, given, text, lx_text>>
lookupVars    == <<doc_type, template, category_order>>
analyzeVars   == <<TEMPLATES, doc_type, template, category_order, requests>>
serviceVars   == <<calls, upload_dirs, report_dirs, now, fetched>>
coreVars      == <<pc, objects, extractions, extractorVars, analyzeVars>>

vars == <<pc, all_attributes, merged, objects, extractions, given, text, lx_text,
          TEMPLATES, doc_type, template, category_order, requests,
          calls, upload_dirs, report_dirs, now, fetched>>

(***************************************************************************)
(* Strings                                                                 *)
(***************************************************************************)

\* str.isspace() on one ASCII character, as str.strip() uses it.
IsSpace(c) == c \in {9, 10, 11, 12, 13, 28, 29, 30, 31, 32}

\* str.lower() on one ASCII character.
LowerChar(c) == IF c \in 65..90 THEN c + 32 ELSE c

\* str.lower()
Lower(s) == [i \in 1..Len(s) |-> LowerChar(s[i])]

\* str.strip(): drops the leading and the trailing whitespace only.
Strip(s) ==
    LET keep == {i \in 1..Len(s) : ~IsSpace(s[i])}
    IN  IF keep = {} THEN <<>>
        ELSE LET lo == CHOOSE i \in keep : \A j \in keep : i <= j
                 hi == CHOOSE i \in keep : \A j \in keep : j <= i
             IN  SubSeq(s, lo, hi)

\* s < t for Python strings: code point by code point, a proper prefix first.
StrLess(s, t) ==
    \E i \in 1..(Len(t)) :
        /\ \A j \in 1..(i - 1) : j <= Len(s) /\ s[j] = t[j]
        /\ \/ i = Len(s) + 1
           \/ i <= Len(s) /\ s[i] < t[i]

\* sorted(values) on a set of strings.
RECURSIVE Sorted(_)
Sorted(S) ==
    IF S = {} THEN <<>>
    ELSE LET m == CHOOSE x \in S : \A y \in S \ {x} : StrLess(x, y)
         IN  <<m>> \o Sorted(S \ {m})

\* sep.join(parts)
RECURSIVE Join(_, _)
Join(sep, parts) ==
    IF parts = <<>> THEN <<>>
    ELSE IF Len(parts) = 1 THEN parts[1]
    ELSE parts[1] \o sep \o Join(sep, Tail(parts))

\* str(n) for a natural number: its decimal digits.
RECURSIVE Digits(_)
Digits(n) ==
    IF n < 10 THEN <<48 + n>>
    ELSE Digits(n \div 10) \o <<48 + (n % 10)>>

(***************************************************************************)
(* extract_insights, up to the extraction call: the truncation of long     *)
(* texts                                                                   *)
(***************************************************************************)

LongTextThreshold == 8000
ChunkSize == 4000
WordBoundaryWindow == 200

\* str.rfind(c): the 0-based index of the last occurrence, -1 when there is none.
RFind(s, c) ==
    LET at == {i \in 1..Len(s) : s[i] = c}
    IN  IF at = {} THEN -1
        ELSE (CHOOSE i \in at : \A j \in at : j <= i) - 1

\* _chunk_and_extract with `last_space >= chunk_size - 200`.
ChunkAndExtractInclusive(t) ==
    IF Len(t) > ChunkSize
    THEN LET last_space == RFind(SubSeq(t, 1, ChunkSize), 32)
         IN  IF last_space >= ChunkSize - WordBoundaryWindow
             THEN SubSeq(t, 1, last_space)
             ELSE SubSeq(t, 1, ChunkSize)
    ELSE t

\* _chunk_and_extract (the template argument is not used).
ChunkAndExtract(t) ==
    IF Len(t) > ChunkSize
    THEN LET last_space == RFind(SubSeq(t, 1, ChunkSize), 32)
         IN  IF last_space > ChunkSize - WordBoundaryWindow
             THEN SubSeq(t, 1, last_space)
             ELSE SubSeq(t, 1, ChunkSize)
    ELSE t

\* ExtractionInput truncating every text longer than the chunk size.
ExtractionInputFromChunkSize(t) ==
    IF Len(t) > ChunkSize THEN ChunkAndExtract(t) ELSE t

\* Lines 32-38: the text extract_insights passes to lx.extract.
ExtractionInput(t) ==
    IF Len(t) > LongTextThreshold THEN ChunkAndExtract(t) ELSE t

(***************************************************************************)
(* Attribute values                                                        *)
(***************************************************************************)

StrVal(s) == <<"str", s>>
IntVal(n) == <<"int", n>>
NoneVal   == <<"none">>

\* bool(value): what `if value:` tests.
Truthy(v) ==
    CASE v[1] = "str"  -> v[2] # <<>>
      [] v[1] = "int"  -> v[2] # 0
      [] v[1] = "none" -> FALSE

\* str(value)
Str(v) ==
    CASE v[1] = "str"  -> v[2]
      [] v[1] = "int"  -> Digits(v[2])
      [] v[1] = "none" -> <<78, 111, 110, 101>>

(***************************************************************************)
(* _merge_attributes                                                       *)
(***************************************************************************)

\* The companion key f"{key}_variations".
VariationsKey(key) == Append(key, "_variations")

\* MergeStep without the `if value:` guard: empty values are tracked too.
MergeStepTrackEmpty(st, attrs) ==
    LET seen == DOMAIN attrs
    IN  [merged |->
            [k \in DOMAIN st.merged \cup DOMAIN attrs |->
                IF k \in DOMAIN st.merged THEN st.merged[k] ELSE attrs[k]],
         value_sets |->
            [k \in DOMAIN st.value_sets \cup seen |->
                (IF k \in DOMAIN st.value_sets THEN st.value_sets[k] ELSE {})
                \cup (IF k \in seen THEN {Str(attrs[k])} ELSE {})]]

\* One pass of the outer loop (lines 114-121) over attrs = all_attributes[i]:
\* st = [merged, value_sets], value_sets a function from the keys seen with a
\* truthy value to the set of their string forms.
MergeStep(st, attrs) ==
    LET seen == {k \in DOMAIN attrs : Truthy(attrs[k])}
    IN  [merged |->
            [k \in DOMAIN st.merged \cup DOMAIN attrs |->
                IF k \in DOMAIN st.merged THEN st.merged[k] ELSE attrs[k]],
         value_sets |->
            [k \in DOMAIN st.value_sets \cup seen |->
                (IF k \in DOMAIN st.value_sets THEN st.value_sets[k] ELSE {})
                \cup (IF k \in seen THEN {Str(attrs[k])} ELSE {})]]

RECURSIVE MergeLoop(_, _)
MergeLoop(st, rest) ==
    IF rest = <<>> THEN st
    ELSE MergeLoop(MergeStep(st, Head(rest)), Tail(rest))

\* AddVariations with the test `len(values) > 1` slipped to `len(values) >= 1`.
AddVariationsFromOne(st) ==
    LET multi == {k \in DOMAIN st.value_sets : Cardinality(st.value_sets[k]) >= 1}
        added == {VariationsKey(k) : k \in multi}
    IN  [k \in DOMAIN st.merged \cup added |->
            IF k \in added
            THEN StrVal(Join(<<44, 32>>,
                             Sorted(st.value_sets[SubSeq(k, 1, Len(k) - 1)])))
            ELSE st.merged[k]]

\* AddVariations listing the representative value first and the other values
\* sorted after it, instead of sorting them all.
AddVariationsRepresentativeFirst(st) ==
    LET multi == {k \in DOMAIN st.value_sets : Cardinality(st.value_sets[k]) > 1}
        added == {VariationsKey(k) : k \in multi}
        base(k) == SubSeq(k, 1, Len(k) - 1)
        rep(k) == Str(st.merged[base(k)])
    IN  [k \in DOMAIN st.merged \cup added |->
            IF k \in added
            THEN StrVal(Join(<<44, 32>>,
                             <<rep(k)>> \o Sorted(st.value_sets[base(k)] \ {rep(k)})))
            ELSE st.merged[k]]

\* The summary loop (lines 124-126): every key with more than one distinct
\* string form gets its companion key, written over whatever merged held.
AddVariations(st) ==
    LET multi == {k \in DOMAIN st.value_sets : Cardinality(st.value_sets[k]) > 1}
        added == {VariationsKey(k) : k \in multi}
    IN  [k \in DOMAIN st.merged \cup added |->
            IF k \in added
            THEN StrVal(Join(<<44, 32>>,
                             Sorted(st.value_sets[SubSeq(k, 1, Len(k) - 1)])))
            ELSE st.merged[k]]

MergeAttributes(attrs_list) ==
    IF attrs_list = <<>> THEN <<>>
    ELSE AddVariations(MergeLoop([merged |-> <<>>, value_sets |-> <<>>], attrs_list))

(***************************************************************************)
(* _deduplicate_extractions                                                *)
(*                                                                         *)
(* An Extraction object is a record [extraction_class, extraction_text,    *)
(* attributes]; attributes is <<"dict", map>> or <<"none">>.  The function *)
(* works on references: it rebinds the attributes field of each group's    *)
(* first object and returns the list of those objects.                     *)
(***************************************************************************)

KeyMentionCount == <<"mention_count">>

AttrsNone    == <<"none">>
AttrsDict(m) == <<"dict", m>>

\* DedupKey comparing the text case-sensitively (no .lower()).
DedupKeyCaseSensitive(e) == <<e.extraction_class, Strip(e.extraction_text)>>

\* Lines 66-69: the key of an extraction, class + normalized text.
DedupKey(e) == <<e.extraction_class, Lower(Strip(e.extraction_text))>>

\* Line 77: `extraction.attributes and isinstance(extraction.attributes, dict)`.
ContributesAttributes(e) ==
    /\ e.attributes[1] = "dict"
    /\ e.attributes[2] # <<>>

\* GroupStep without the `is None` test: every member of a group replaces its
\* representative, so the last one is kept.
GroupStepKeepLast(grouped, objs, ref) ==
    LET e == objs[ref]
        key == <<e.extraction_class, Lower(Strip(e.extraction_text))>>
        hit == {i \in 1..Len(grouped) : grouped[i].key = key}
        more == IF e.attributes[1] = "dict" /\ e.attributes[2] # <<>>
                THEN <<e.attributes[2]>> ELSE <<>>
    IN  IF hit = {}
        THEN Append(grouped, [key |-> key, extraction |-> ref, count |-> 1,
                              all_attributes |-> more])
        ELSE LET i == CHOOSE i \in hit : TRUE
             IN  [grouped EXCEPT ![i].extraction = ref,
                                 ![i].count = @ + 1,
                                 ![i].all_attributes = @ \o more]

\* One pass of the grouping loop (lines 64-78) over the object `ref`.  grouped
\* is kept as the sequence of the dict's entries in insertion order.
GroupStep(grouped, objs, ref) ==
    LET e == objs[ref]
        key == DedupKey(e)
        hit == {i \in 1..Len(grouped) : grouped[i].key = key}
        more == IF ContributesAttributes(e) THEN <<e.attributes[2]>> ELSE <<>>
    IN  IF hit = {}
        THEN Append(grouped, [key |-> key, extraction |-> ref, count |-> 1,
                              all_attributes |-> more])
        ELSE LET i == CHOOSE i \in hit : TRUE
             IN  [grouped EXCEPT ![i].count = @ + 1,
                                 ![i].all_attributes = @ \o more]

RECURSIVE GroupLoop(_, _, _)
GroupLoop(grouped, objs, refs) ==
    IF refs = <<>> THEN grouped
    ELSE GroupLoop(GroupStep(grouped, objs, Head(refs)), objs, Tail(refs))

\* GroupAttributes writing mention_count for every group (`count >= 1`).
GroupAttributesAlwaysCount(g) ==
    LET merged_attrs == MergeAttributes(g.all_attributes)
    IN  [k \in DOMAIN merged_attrs \cup {<<"mention_count">>} |->
            IF k = <<"mention_count">> THEN IntVal(g.count) ELSE merged_attrs[k]]

\* GroupAttributes counting the attribute maps of the group in place of its
\* mentions.
GroupAttributesCountingMaps(g) ==
    LET merged_attrs == MergeAttributes(g.all_attributes)
    IN  IF g.count > 1
        THEN [k \in DOMAIN merged_attrs \cup {<<"mention_count">>} |->
                IF k = <<"mention_count">> THEN IntVal(Len(g.all_attributes))
                ELSE merged_attrs[k]]
        ELSE merged_attrs

\* Lines 84-95: the attributes of a group's merged entity.
GroupAttributes(g) ==
    LET merged_attrs == MergeAttributes(g.all_attributes)
    IN  IF g.count > 1
        THEN [k \in DOMAIN merged_attrs \cup {KeyMentionCount} |->
                IF k = KeyMentionCount THEN IntVal(g.count) ELSE merged_attrs[k]]
        ELSE merged_attrs

\* The function writing the trimmed text back to the entity it keeps.
DeduplicateExtractionsTrimmingText(objs, refs) ==
    LET grouped == GroupLoop(<<>>, objs, refs)
        groupOf(r) == {i \in 1..Len(grouped) : grouped[i].extraction = r}
    IN  [objects |->
            [r \in DOMAIN objs |->
                IF groupOf(r) = {} THEN objs[r]
                ELSE [objs[r] EXCEPT
                        !.extraction_text = Strip(@),
                        !.attributes =
                            AttrsDict(GroupAttributes(grouped[CHOOSE i \in groupOf(r) : TRUE]))]],
         deduplicated |-> [i \in 1..Len(grouped) |-> grouped[i].extraction]]

\* The function leaving the attributes of the entity it keeps as they are
\* when its group has nothing to merge and no count to state.
DeduplicateExtractionsLeavingEmpty(objs, refs) ==
    LET grouped == GroupLoop(<<>>, objs, refs)
        groupOf(r) == {i \in 1..Len(grouped) : grouped[i].extraction = r}
        attrsOf(r) == GroupAttributes(grouped[CHOOSE i \in groupOf(r) : TRUE])
    IN  [objects |->
            [r \in DOMAIN objs |->
                IF groupOf(r) = {} \/ attrsOf(r) = <<>> THEN objs[r]
                ELSE [objs[r] EXCEPT !.attributes = AttrsDict(attrsOf(r))]],
         deduplicated |-> [i \in 1..Len(grouped) |-> grouped[i].extraction]]

\* The whole function: the objects after the call and the list it returns.
DeduplicateExtractions(objs, refs) ==
    LET grouped == GroupLoop(<<>>, objs, refs)
        groupOf(r) == {i \in 1..Len(grouped) : grouped[i].extraction = r}
    IN  [objects |->
            [r \in DOMAIN objs |->
                IF groupOf(r) = {} THEN objs[r]
                ELSE [objs[r] EXCEPT !.attributes =
                        AttrsDict(GroupAttributes(grouped[CHOOSE i \in groupOf(r) : TRUE]))]],
         deduplicated |-> [i \in 1..Len(grouped) |-> grouped[i].extraction]]

\* The entities a list of references denotes.
ValuesOf(objs, refs) == [i \in 1..Len(refs) |-> objs[refs[i]]]

(***************************************************************************)
(* Document types and the schema registry (app/core/schemas.py,            *)
(* app/templates/extraction_templates.py, _get_category_order).  A         *)
(* document-type tag is the string value of the DocumentType member; a tag *)
(* that is the value of no member is a string outside DocumentTypes.       *)
(***************************************************************************)

DocumentTypes == {"story", "meeting", "research", "technical", "legal", "general"}

STORY_TEMPLATE ==
    [extraction_classes |->
        <<"character", "plot_point", "theme", "setting", "moral">>,
     report_sections |->
        <<"Characters", "Plot Summary", "Themes & Morals",
          "Setting">>]
MEETING_TEMPLATE ==
    [extraction_classes |->
        <<"speaker", "agenda_item", "action_item",
          "decision", "discussion_point">>,
     report_sections |->
        <<"Participants", "Agenda", "Decisions",
          "Action Items", "Key Discussions">>]
RESEARCH_TEMPLATE ==
    [extraction_classes |->
        <<"author", "research_question", "methodology", "finding",
          "conclusion", "citation">>,
     report_sections |->
        <<"Authors", "Research Questions", "Methodology",
          "Key Findings", "Conclusions">>]
TECHNICAL_TEMPLATE ==
    [extraction_classes |->
        <<"component", "function", "parameter", "dependency",
          "configuration", "example">>,
     report_sections |->
        <<"Components", "APIs/Functions", "Configuration",
          "Dependencies", "Usage Examples">>]
LEGAL_TEMPLATE ==
    [extraction_classes |->
        <<"party", "clause", "obligation", "deadline",
          "term", "penalty">>,
     report_sections |->
        <<"Parties", "Key Clauses", "Obligations",
          "Important Dates", "Terms & Conditions">>]
GENERAL_TEMPLATE ==
    [extraction_classes |->
        <<"entity", "key_point", "topic", "statement", "date">>,
     report_sections |->
        <<"Key Topics", "Important Entities", "Main Points",
          "Significant Statements">>]

\* The TEMPLATES dict as the module builds it at import.
TemplatesAtStartup ==
    ("story" :> STORY_TEMPLATE) @@ ("meeting" :> MEETING_TEMPLATE)
    @@ ("research" :> RESEARCH_TEMPLATE) @@ ("technical" :> TECHNICAL_TEMPLATE)
    @@ ("legal" :> LEGAL_TEMPLATE) @@ ("general" :> GENERAL_TEMPLATE)

\* get_template: TEMPLATES.get(doc_type, GENERAL_TEMPLATE)
GetTemplate(registry, tag) ==
    IF tag \in DOMAIN registry
    THEN <<"template", registry[tag]>>
    ELSE <<"template", GENERAL_TEMPLATE>>

\* The priority maps with the general type given the map of the story type
\* and two classes of the meeting type on one rank.
CategoryOrdersTied ==
    ("story" :>
        (("character" :> 1) @@ ("plot_point" :> 2) @@ ("theme" :> 3)
         @@ ("setting" :> 4) @@ ("moral" :> 5)))
    @@ ("meeting" :>
        (("speaker" :> 1) @@ ("decision" :> 2) @@ ("action_item" :> 2)
         @@ ("agenda_item" :> 4) @@ ("discussion_point" :> 5)))
    @@ ("research" :>
        (("author" :> 1) @@ ("research_question" :> 2) @@ ("finding" :> 3)
         @@ ("methodology" :> 4) @@ ("conclusion" :> 5) @@ ("citation" :> 6)))
    @@ ("technical" :>
        (("component" :> 1) @@ ("function" :> 2) @@ ("parameter" :> 3)
         @@ ("configuration" :> 4) @@ ("dependency" :> 5) @@ ("example" :> 6)))
    @@ ("legal" :>
        (("party" :> 1) @@ ("obligation" :> 2) @@ ("clause" :> 3)
         @@ ("deadline" :> 4) @@ ("term" :> 5) @@ ("penalty" :> 6)))
    @@ ("general" :>
        (("character" :> 1) @@ ("plot_point" :> 2) @@ ("theme" :> 3)
         @@ ("setting" :> 4) @@ ("moral" :> 5)))

\* The orders dict that _get_category_order builds at each call.
CategoryOrders ==
    ("story" :>
        (("character" :> 1) @@ ("plot_point" :> 2) @@ ("theme" :> 3)
         @@ ("setting" :> 4) @@ ("moral" :> 5)))
    @@ ("meeting" :>
        (("speaker" :> 1) @@ ("decision" :> 2) @@ ("action_item" :> 3)
         @@ ("agenda_item" :> 4) @@ ("discussion_point" :> 5)))
    @@ ("research" :>
        (("author" :> 1) @@ ("research_question" :> 2) @@ ("finding" :> 3)
         @@ ("methodology" :> 4) @@ ("conclusion" :> 5) @@ ("citation" :> 6)))
    @@ ("technical" :>
        (("component" :> 1) @@ ("function" :> 2) @@ ("parameter" :> 3)
         @@ ("configuration" :> 4) @@ ("dependency" :> 5) @@ ("example" :> 6)))
    @@ ("legal" :>
        (("party" :> 1) @@ ("obligation" :> 2) @@ ("clause" :> 3)
         @@ ("deadline" :> 4) @@ ("term" :> 5) @@ ("penalty" :> 6)))
    @@ ("general" :>
        (("entity" :> 1) @@ ("key_point" :> 2) @@ ("topic" :> 3)
         @@ ("statement" :> 4) @@ ("date" :> 5)))

\* _get_category_order: orders.get(doc_type, {})
GetCategoryOrder(tag) ==
    IF tag \in DOMAIN CategoryOrders THEN CategoryOrders[tag] ELSE <<>>

(***************************************************************************)
(* The report (app/services/report_generator.py).  The PDF is modelled by  *)
(* the content of its sections, in the order generate_pdf_report appends   *)
(* them to the story: the paragraphs of the executive summary, the rows of *)
(* the count table, the key-insight lines and the detailed listing.        *)
(***************************************************************************)

\* The characters of a class name.
Spelling(cls) ==
    CASE cls = "speaker" -> <<115, 112, 101, 97, 107, 101, 114>>
      [] cls = "decision" -> <<100, 101, 99, 105, 115, 105, 111, 110>>
      [] cls = "topic" -> <<116, 111, 112, 105, 99>>
      [] cls = "entity" -> <<101, 110, 116, 105, 116, 121>>
      [] cls = "character" -> <<99, 104, 97, 114, 97, 99, 116, 101, 114>>
      [] cls = "theme" -> <<116, 104, 101, 109, 101>>
      [] cls = "action_item" -> <<97, 99, 116, 105, 111, 110, 95, 105, 116, 101, 109>>
      [] cls = "finding" -> <<102, 105, 110, 100, 105, 110, 103>>
      [] cls = "component" -> <<99, 111, 109, 112, 111, 110, 101, 110, 116>>
      [] cls = "function" -> <<102, 117, 110, 99, 116, 105, 111, 110>>
      [] cls = "party" -> <<112, 97, 114, 116, 121>>
      [] cls = "obligation" -> <<111, 98, 108, 105, 103, 97, 116, 105, 111, 110>>

\* str.upper() on one ASCII character.
UpperChar(c) == IF c \in 97..122 THEN c - 32 ELSE c

IsCased(c) == c \in 65..90 \/ c \in 97..122

\* str.replace(a, b) for single characters.
Replace(s, a, b) == [i \in 1..Len(s) |-> IF s[i] = a THEN b ELSE s[i]]

\* str.title(): a letter is upper-cased unless the character before it is a letter.
Title(s) ==
    [i \in 1..Len(s) |->
        IF i > 1 /\ IsCased(s[i - 1]) THEN LowerChar(s[i]) ELSE UpperChar(s[i])]

\* cls.replace('_', ' ').title()
DisplayName(cls) == Title(Replace(Spelling(cls), 95, 32))

\* One step of the grouping loop: grouped is the dict in insertion order.
GroupByClassStep(grouped, e) ==
    LET at == {i \in 1..Len(grouped) : grouped[i].cls = e.extraction_class}
    IN  IF at = {}
        THEN Append(grouped, [cls |-> e.extraction_class, items |-> <<e>>])
        ELSE LET i == CHOOSE i \in at : TRUE
             IN  [grouped EXCEPT ![i].items = Append(@, e)]

RECURSIVE GroupByClassLoop(_, _)
GroupByClassLoop(grouped, es) ==
    IF es = <<>> THEN grouped
    ELSE GroupByClassLoop(GroupByClassStep(grouped, Head(es)), Tail(es))

GroupByClass(es) == GroupByClassLoop(<<>>, es)

\* sorted(..., reverse=True) taken as "sort ascending, then reverse the list".
SortedIndexesReversedList(keys, reverse) ==
    LET before(j, i) ==
            \/ IF reverse THEN keys[j] > keys[i] ELSE keys[j] < keys[i]
            \/ keys[j] = keys[i] /\ IF reverse THEN j > i ELSE j < i
        place(i) == 1 + Cardinality({j \in DOMAIN keys : before(j, i)})
    IN  [p \in DOMAIN keys |-> CHOOSE i \in DOMAIN keys : place(i) = p]

\* sorted(xs, key=..., reverse=...) on the list of the keys: the indexes of xs
\* in the order of the result.  The sort is stable, with reverse=True too.
SortedIndexes(keys, reverse) ==
    LET before(j, i) ==
            \/ IF reverse THEN keys[j] > keys[i] ELSE keys[j] < keys[i]
            \/ keys[j] = keys[i] /\ j < i
        place(i) == 1 + Cardinality({j \in DOMAIN keys : before(j, i)})
    IN  [p \in DOMAIN keys |-> CHOOSE i \in DOMAIN keys : place(i) = p]

\* x.attributes or {}
AttributesOrEmpty(e) == IF e.attributes[1] = "dict" THEN e.attributes[2] ELSE <<>>

\* (x.attributes or {}).get('mention_count', default)
MentionCountOr(e, default) ==
    LET m == AttributesOrEmpty(e)
    IN  IF KeyMentionCount \in DOMAIN m THEN m[KeyMentionCount][2] ELSE default

\* key=lambda x: (x.attributes or {}).get('mention_count', 1)
MentionCountKey(e) == MentionCountOr(e, 1)

\* sorted(items, key=mention count, reverse=True)
SortedByMentions(items) ==
    LET order == SortedIndexes([i \in DOMAIN items |-> MentionCountKey(items[i])], TRUE)
    IN  [p \in DOMAIN items |-> items[order[p]]]

DefaultRank == 999

\* category_order.get(cls, 0): unranked classes first.
RankOfZero(order, cls) ==
    IF cls \in DOMAIN order THEN order[cls] ELSE 0

\* category_order.get(cls, 999)
RankOf(order, cls) ==
    IF cls \in DOMAIN order THEN order[cls] ELSE DefaultRank

\* The classes sorted by rank descending.
SortedCategoriesDescending(grouped, order) ==
    LET at == SortedIndexes(
                    [i \in DOMAIN grouped |-> RankOf(order, grouped[i].cls)], TRUE)
    IN  [p \in DOMAIN grouped |-> grouped[at[p]]]

\* sorted(grouped.items(), key=lambda x: category_order.get(x[0], 999))
SortedCategories(grouped, order) ==
    LET at == SortedIndexes(
                    [i \in DOMAIN grouped |-> RankOf(order, grouped[i].cls)], FALSE)
    IN  [p \in DOMAIN grouped |-> grouped[at[p]]]

TextsOf(items) == [i \in DOMAIN items |-> items[i].extraction_text]

TopItems == 3
ListAllLimit == 3

Colon      == <<58, 32>>                                           \* ": "
Comma      == <<44, 32>>                                           \* ", "
TotalOpen  == <<32, 40>>                                           \* " ("
TotalClose == <<32, 116, 111, 116, 97, 108, 41, 58, 32>>           \* " total): "
AndOthers  == <<44, 32, 97, 110, 100, 32, 111, 116, 104, 101, 114, 115>>  \* ", and others"

\* The line with the top items taken in encounter order, not by mention count.
InsightLineFirstThree(g) ==
    LET n == Len(g.items)
        top_items == SubSeq(g.items, 1, IF n < TopItems THEN n ELSE TopItems)
    IN  IF n = 1 THEN DisplayName(g.cls) \o Colon \o g.items[1].extraction_text
        ELSE IF n <= ListAllLimit
        THEN DisplayName(g.cls) \o Colon \o Join(Comma, TextsOf(g.items))
        ELSE DisplayName(g.cls) \o TotalOpen \o Digits(n) \o TotalClose
             \o Join(Comma, TextsOf(top_items)) \o AndOthers

\* The insight line of one class (one turn of the loop of _generate_key_insights).
InsightLine(g) ==
    LET n == Len(g.items)
        top_items == SubSeq(SortedByMentions(g.items), 1,
                            IF n < TopItems THEN n ELSE TopItems)
    IN  IF n = 1 THEN DisplayName(g.cls) \o Colon \o g.items[1].extraction_text
        ELSE IF n <= ListAllLimit
        THEN DisplayName(g.cls) \o Colon \o Join(Comma, TextsOf(g.items))
        ELSE DisplayName(g.cls) \o TotalOpen \o Digits(n) \o TotalClose
             \o Join(Comma, TextsOf(top_items)) \o AndOthers

\* _generate_key_insights in schema priority order (DocumentTypes' general map).
GenerateKeyInsightsByRank(grouped) ==
    LET sorted == SortedCategories(grouped, GetCategoryOrder("general"))
    IN  [i \in DOMAIN sorted |-> InsightLine(sorted[i])]

\* _generate_key_insights: one line per class, in the order of grouped.
GenerateKeyInsights(grouped) == [i \in DOMAIN grouped |-> InsightLine(grouped[i])]

Amp == <<38, 97, 109, 112, 59>>     \* "&amp;"
Lt  == <<38, 108, 116, 59>>         \* "&lt;"
Gt  == <<38, 103, 116, 59>>         \* "&gt;"

\* s.replace('&', '&amp;').replace('<', '&lt;').replace('>', '&gt;')
RECURSIVE Escape(_)
Escape(s) ==
    IF s = <<>> THEN <<>>
    ELSE (CASE Head(s) = 38 -> Amp
            [] Head(s) = 60 -> Lt
            [] Head(s) = 62 -> Gt
            [] OTHER -> <<Head(s)>>) \o Escape(Tail(s))

\* One entity of the detailed listing: its text, the count of the
\* "(mentioned N times)" note (0 when the note is absent) and the attribute
\* lines under it.
ListedItem(item) ==
    LET item_attrs == AttributesOrEmpty(item)
        mention_count == MentionCountOr(item, 0)
    IN  [extraction_text |-> item.extraction_text,
         mentioned |-> IF mention_count > 1 THEN mention_count ELSE 0,
         attributes |->
            [k \in {k \in DOMAIN item_attrs :
                        k # KeyMentionCount /\ Truthy(item_attrs[k])}
                |-> Escape(Str(item_attrs[k]))]]

\* One class of the detailed listing: its header and its entities.
ListedSection(g) ==
    LET sorted_items == SortedByMentions(g.items)
    IN  [title |-> DisplayName(g.cls),
         items |-> [i \in DOMAIN sorted_items |-> ListedItem(sorted_items[i])]]

\* The "Detailed Entities & Findings" section.
DetailedSections(grouped, tag) ==
    LET sorted_categories == SortedCategories(grouped, GetCategoryOrder(tag))
    IN  [i \in DOMAIN sorted_categories |-> ListedSection(sorted_categories[i])]

\* The count table under "Extraction Summary", without its header row.
SummaryData(grouped) ==
    [i \in DOMAIN grouped |->
        <<DisplayName(grouped[i].cls), Digits(Len(grouped[i].items))>>]

\* len(grouped.get(cls, []))
CountOf(es, cls) ==
    Cardinality({i \in DOMAIN es : es[i].extraction_class = cls})

\* The classes whose counts the paragraph of a document type states, in the
\* order in which the sentence states them.
CountedClasses(tag) ==
    CASE tag = "story"     -> <<"character", "theme">>
      [] tag = "meeting"   -> <<"speaker", "decision", "action_item">>
      [] tag = "research"  -> <<"finding">>
      [] tag = "technical" -> <<"component", "function">>
      [] tag = "legal"     -> <<"party", "obligation">>
      [] OTHER             -> <<>>

\* The closing paragraph counting the entities where it should count the classes.
ClosingParagraphEntitiesTwice(es) ==
    [kind |-> "overall", total_extractions |-> Len(es), unique_classes |-> Len(es)]

\* The "Overall summary" paragraph.
ClosingParagraph(es) ==
    [kind |-> "overall",
     total_extractions |-> Len(es),
     unique_classes |-> Cardinality({es[i].extraction_class : i \in DOMAIN es})]

\* _generate_executive_summary: the paragraphs by what they state.
GenerateExecutiveSummary(es, classification) ==
    LET tag == classification.document_type
        counted == CountedClasses(tag)
    IN  << [kind |-> "classification",
            document_type |-> tag,
            confidence |-> classification.confidence,
            reasoning |-> classification.reasoning],
           IF tag \in {"story", "meeting", "research", "technical", "legal"}
           THEN [kind |-> tag,
                 counted |-> counted,
                 counts |-> [i \in DOMAIN counted |-> CountOf(es, counted[i])]]
           ELSE [kind |-> "general", total_entities |-> Len(es)],
           ClosingParagraph(es) >>

\* generate_pdf_report: the story handed to doc.build.
GeneratePdfReport(es, classification) ==
    LET grouped == GroupByClass(es)
    IN  [executive_summary |-> GenerateExecutiveSummary(es, classification),
         summary_data      |-> SummaryData(grouped),
         key_insights      |-> GenerateKeyInsights(grouped),
         detailed_sections |-> DetailedSections(grouped, classification.document_type)]

NoInsights == "No significant insights extracted from the document."

\* _generate_summary without its test for an empty list.
GenerateSummaryUnguarded(es, tag) ==
    LET grouped == GroupByClass(es)
    IN  [analyzed_as |-> tag,
         extracted |-> Len(es),
         count_by_class |->
            [i \in DOMAIN grouped |-> <<Len(grouped[i].items), grouped[i].cls>>]]

\* _generate_summary (app/api/routes/analyze.py): the message of the response.
GenerateSummary(es, tag) ==
    IF es = <<>> THEN [message |-> NoInsights]
    ELSE LET grouped == GroupByClass(es)
         IN  [analyzed_as |-> tag,
              extracted |-> Len(es),
              count_by_class |->
                 [i \in DOMAIN grouped |-> <<Len(grouped[i].items), grouped[i].cls>>]]

(***************************************************************************)
(* One analysis request (analyze_document, app/api/routes/analyze.py) from *)
(* the classification on: the template lookup and the deduplication of     *)
(* extract_insights, generate_pdf_report and _generate_summary.  The       *)
(* Extraction objects of every request live in the one heap, objects; a    *)
(* request holds references to its own.                                    *)
(***************************************************************************)

DefaultConfidence == 70

\* The ClassificationResult of a document whose category line names tag and
\* whose answer has no confidence and no reasoning line.
Classification(tag) ==
    [document_type |-> tag, confidence |-> DefaultConfidence, reasoning |-> <<>>]

\* A request whose raw stream lx.extract has returned at the references refs.
NewRequest(tag, refs, raw) ==
    [pc |-> "classified",
     classification |-> Classification(tag),
     raw |-> raw,
     extractions |-> refs,
     template |-> <<"none">>,
     report |-> <<"none">>,
     summary |-> <<"none">>,
     response |-> <<"none">>]

\* The state of the variables of the requests when no request is modelled.
NoAnalysis ==
    /\ TEMPLATES = TemplatesAtStartup
    /\ doc_type = "general"
    /\ template = <<"none">>
    /\ category_order = <<"none">>
    /\ requests = <<>>

\* The lists of every request taken for the list of one.
EveryRequestExtractions(reqs, r) ==
    LET RECURSIVE all(_)
        all(i) == IF i > Len(reqs) THEN <<>> ELSE reqs[i].extractions \o all(i + 1)
    IN  all(1)

\* result.extractions of request r: the list its own lx.extract call returned.
RequestExtractions(reqs, r) == reqs[r].extractions

\* template = get_template(doc_type)
RequestTemplate(r) ==
    /\ requests[r].pc = "classified"
    /\ requests' = [requests EXCEPT
            ![r].template = GetTemplate(TEMPLATES, requests[r].classification.document_type),
            ![r].pc = "extracting"]
    /\ UNCHANGED <<pc, objects, extractions, TEMPLATES, lookupVars, extractorVars, serviceVars>>

\* result.extractions = _deduplicate_extractions(result.extractions)
RequestDeduplicate(r) ==
    /\ requests[r].pc = "extracting"
    /\ LET d == DeduplicateExtractions(objects, RequestExtractions(requests, r))
       IN  /\ objects' = d.objects
           /\ requests' = [requests EXCEPT ![r].extractions = d.deduplicated,
                                           ![r].pc = "extracted"]
    /\ UNCHANGED <<pc, extractions, TEMPLATES, lookupVars, extractorVars, serviceVars>>

\* generate_pdf_report(extraction_result.extractions, classification.document_type, ...)
RequestReport(r) ==
    /\ requests[r].pc = "extracted"
    /\ requests' = [requests EXCEPT
            ![r].report = <<"report", GeneratePdfReport(
                                ValuesOf(objects, requests[r].extractions),
                                requests[r].classification)>>,
            ![r].pc = "reported"]
    /\ UNCHANGED <<pc, objects, extractions, TEMPLATES, lookupVars, extractorVars, serviceVars>>

\* summary = _generate_summary(extraction_result.extractions, classification.document_type)
RequestSummary(r) ==
    /\ requests[r].pc = "reported"
    /\ requests' = [requests EXCEPT
            ![r].summary = <<"summary", GenerateSummary(
                                ValuesOf(objects, requests[r].extractions),
                                requests[r].classification.document_type)>>,
            ![r].pc = "done"]
    /\ UNCHANGED <<pc, objects, extractions, TEMPLATES, lookupVars, extractorVars, serviceVars>>

\* ExtractionItem(extraction_class=..., extraction_text=..., attributes=e.attributes or {})
ExtractionItem(e) ==
    [extraction_class |-> e.extraction_class,
     extraction_text |-> e.extraction_text,
     attributes |-> AttributesOrEmpty(e)]

\* The response stating the mentions of the entities as their count.
AnalyzeResponseCountingMentions(es, classification, summary) ==
    LET RECURSIVE mentions(_)
        mentions(i) == IF i > Len(es) THEN 0
                       ELSE MentionCountOr(es[i], 1) + mentions(i + 1)
    IN  [document_type |-> classification.document_type,
         confidence |-> classification.confidence,
         summary |-> summary,
         extraction_count |-> mentions(1),
         extractions |-> [i \in DOMAIN es |-> ExtractionItem(es[i])]]

\* The AnalyzeResponse of analyze_document: the fields computed from the
\* classification and the extraction result (job_id and the two URLs are
\* those of the call).
AnalyzeResponse(es, classification, summary) ==
    [document_type |-> classification.document_type,
     confidence |-> classification.confidence,
     summary |-> summary,
     extraction_count |-> Len(es),
     extractions |-> [i \in DOMAIN es |-> ExtractionItem(es[i])]]

\* return AnalyzeResponse(...)
RequestRespond(r) ==
    /\ requests[r].pc = "done"
    /\ requests' = [requests EXCEPT
            ![r].response = <<"response", AnalyzeResponse(
                                ValuesOf(objects, requests[r].extractions),
                                requests[r].classification,
                                requests[r].summary[2])>>,
            ![r].pc = "answered"]
    /\ UNCHANGED <<pc, objects, extractions, TEMPLATES, lookupVars, extractorVars, serviceVars>>

NoExtractorCall ==
    /\ all_attributes = <<>>
    /\ merged = <<>>
    /\ given = <<>>
    /\ text = <<>>
    /\ lx_text = <<>>

NoLookup ==
    /\ doc_type = "general"
    /\ template = <<"none">>
    /\ category_order = <<"none">>

(***************************************************************************)
(* The HTTP service around the pipeline: POST /analyze (analyze_document), *)
(* GET /report/{job_id} and the job directories on disk.  A call of        *)
(* /analyze advances one pipeline function at a time; what the file holds, *)
(* what the language model answers and whether a step raises are inputs.   *)
(* Job ids are uuid4 values, taken as fresh: call c draws the id c.  Time  *)
(* is counted in hours; a directory's ctime is the time of the latest      *)
(* creation of an entry in it (POSIX os.path.getctime).                    *)
(***************************************************************************)

DotPdf  == <<46, 112, 100, 102>>     \* ".pdf"
DotDocx == <<46, 100, 111, 99, 120>>    \* ".docx"
DotTxt  == <<46, 116, 120, 116>>     \* ".txt"

ALLOWED_EXTENSIONS == {DotPdf, DotDocx, DotTxt}
MAX_FILE_SIZE_MB == 10
CLEANUP_HOURS == 24

\* os.path.splitext(p)[1]: from the last dot of the last path component, if
\* some character other than a dot precedes it in that component.
SplitExt(p) ==
    LET Last(ch) == LET at == {i \in 1..Len(p) : p[i] = ch}
                    IN  IF at = {} THEN 0 ELSE CHOOSE i \in at : \A j \in at : j <= i
        sepIndex == Last(47)
        dotIndex == Last(46)
    IN  IF dotIndex > sepIndex /\ \E i \in (sepIndex + 1)..(dotIndex - 1) : p[i] # 46
        THEN SubSeq(p, dotIndex, Len(p))
        ELSE <<>>

\* An HTTPException.
HTTPException(status_code, detail) == [status_code |-> status_code, detail |-> detail]

\* The two validations taken in the other order: the size first.
RejectionSizeFirst(filename, size) ==
    LET file_ext == Lower(SplitExt(filename))
    IN  IF size > MAX_FILE_SIZE_MB * 1024 * 1024
        THEN <<"raise", HTTPException(413, <<"File too large. Max size: ", MAX_FILE_SIZE_MB, "MB">>)>>
        ELSE IF file_ext \notin ALLOWED_EXTENSIONS
        THEN <<"raise", HTTPException(400, <<"Unsupported file type. Allowed: ", ALLOWED_EXTENSIONS>>)>>
        ELSE <<"none">>

\* The validation of the upload: <<"raise", e>> with the HTTPException e that
\* analyze_document raises before it draws a job id, or <<"none">>.
Rejection(filename, size) ==
    LET file_ext == Lower(SplitExt(filename))
    IN  IF file_ext \notin ALLOWED_EXTENSIONS
        THEN <<"raise", HTTPException(400, <<"Unsupported file type. Allowed: ", ALLOWED_EXTENSIONS>>)>>
        ELSE IF size > MAX_FILE_SIZE_MB * 1024 * 1024
        THEN <<"raise", HTTPException(413, <<"File too large. Max size: ", MAX_FILE_SIZE_MB, "MB">>)>>
        ELSE <<"none">>

MinTextLength == 50

\* The text test on the count of the characters that are not whitespace.
TooShortNonBlank(parsed) ==
    Cardinality({i \in 1..Len(parsed) : ~IsSpace(parsed[i])}) < MinTextLength

\* not text or len(text.strip()) < 50
TooShort(parsed) == parsed = <<>> \/ Len(Strip(parsed)) < MinTextLength

FallbackConfidence == 50

\* _map_category
MapCategory(category_str) ==
    CASE category_str = "STORY" -> "story"
      [] category_str = "MEETING" -> "meeting"
      [] category_str = "RESEARCH" -> "research"
      [] category_str = "TECHNICAL" -> "technical"
      [] category_str = "LEGAL" -> "legal"
      [] category_str = "GENERAL" -> "general"
      [] OTHER -> "general"

UnableToDetermine == <<85, 110, 97, 98, 108, 101, 32, 116, 111, 32, 100, 101, 116, 101, 114, 109, 105, 110, 101, 32, 115, 112, 101, 99, 105, 102, 105, 99, 32, 99, 97, 116, 101, 103, 111, 114, 121>>
ClassificationFailed == <<67, 108, 97, 115, 115, 105, 102, 105, 99, 97, 116, 105, 111, 110, 32, 102, 97, 105, 108, 101, 100, 44, 32, 117, 115, 105, 110, 103, 32, 102, 97, 108, 108, 98, 97, 99, 107, 58, 32>>

\* classify_document, by what the model call does: it raises, or it answers
\* with no CATEGORY line, or with the CATEGORY line answer[2] (no CONFIDENCE
\* and no REASONING line).
ClassifyDocument(answer) ==
    IF answer[1] = "raise"
    THEN [document_type |-> "general", confidence |-> FallbackConfidence,
          reasoning |-> ClassificationFailed]
    ELSE IF answer[1] = "no_category"
    THEN [document_type |-> "general", confidence |-> DefaultConfidence,
          reasoning |-> UnableToDetermine]
    ELSE Classification(MapCategory(answer[2]))

\* A call of /analyze as the server receives it: the name and the size of
\* the upload, what parse_document will make of it (<<"text", t>>, or
\* <<"raise">> for a file the parser cannot read) and what the language
\* model will answer to the classification prompt.
NewCall(filename, size, content, answer) ==
    [pc |-> "received", filename |-> filename, size |-> size,
     content |-> content, answer |-> answer,
     job_id |-> <<"none">>, file_ext |-> <<>>, text |-> <<>>,
     classification |-> <<"none">>, steps |-> <<>>,
     response |-> <<"none">>]

\* The state of the service when no call is modelled.
NoService ==
    /\ calls = <<>>
    /\ upload_dirs = <<>>
    /\ report_dirs = <<>>
    /\ now = 0
    /\ fetched = <<"none">>

(***************************************************************************)
(* The attribute merger called on its own: every list of at most MaxMaps   *)
(* attribute maps drawn from AttrMaps.                                     *)
(***************************************************************************)

MaxMaps == 3

KeyA     == <<"a">>
KeyB     == <<"b">>
KeyAVar  == <<"a", "_variations">>

StrX     == <<120>>             \* "x"
StrY     == <<121>>             \* "y"
StrTwo   == <<50>>              \* "2"
StrP     == <<112>>             \* "p"
StrXY    == <<120, 44, 32, 121>> \* "x, y"

\* The attribute maps the merger is tried on: values that are strings, empty
\* strings, None and a positive integer; a key present in some maps and
\* missing in others; a map that already holds a "a_variations" key.
AttrMaps ==
    { <<>>,
      KeyA :> StrVal(StrX),
      KeyA :> StrVal(StrY),
      KeyA :> StrVal(<<>>),
      KeyA :> NoneVal,
      (KeyA :> StrVal(StrX)) @@ (KeyB :> StrVal(StrTwo)),
      KeyB :> IntVal(2),
      (KeyA :> StrVal(StrY)) @@ (KeyAVar :> StrVal(StrP)) }

SeqsUpTo(S, n) == UNION {[1..k -> S] : k \in 0..n}

InitMerge ==
    /\ NoAnalysis
    /\ NoService
    /\ text = <<>>
    /\ lx_text = <<>>
    /\ pc = "merge_call"
    /\ all_attributes \in SeqsUpTo(AttrMaps, MaxMaps)
    /\ merged = <<>>
    /\ objects = <<>>
    /\ extractions = <<>>
    /\ given = <<>>

\* merged = _merge_attributes(all_attributes)
MergeCall ==
    /\ pc = "merge_call"
    /\ merged' = MergeAttributes(all_attributes)
    /\ pc' = "merge_return"
    /\ UNCHANGED <<all_attributes, objects, extractions, given, text, lx_text, analyzeVars, serviceVars>>

NextMerge == MergeCall

SpecMerge == InitMerge /\ [][NextMerge]_vars

(***************************************************************************)
(* The deduplicator run on a raw stream (extract_insights, line 45), and   *)
(* run once more on its own output.  The raw stream is what lx.extract     *)
(* returned: at most MaxStream fresh objects drawn from RawEntities.       *)
(***************************************************************************)

MaxStream == 3

KeyRole   == <<"role">>
KeyRoleVar == <<"role", "_variations">>

John      == <<74, 111, 104, 110>>            \* "John"
JohnLower == <<32, 106, 111, 104, 110, 10>>   \* " john\n"
JoHn      == <<74, 111, 32, 104, 110>>        \* "Jo hn"

RawTexts == {John, JohnLower, JoHn}
RawAttributes ==
    { AttrsNone,
      AttrsDict(KeyRole :> StrVal(StrX)),
      AttrsDict((KeyRole :> StrVal(StrY)) @@ (KeyMentionCount :> IntVal(5))) }

\* Speakers with every text and every attribute shape, and decisions whose
\* text is that of a speaker.
RawEntities ==
    [extraction_class : {"speaker"}, extraction_text : RawTexts,
     attributes : RawAttributes]
    \cup
    [extraction_class : {"decision"}, extraction_text : {John},
     attributes : {AttrsNone, AttrsDict(KeyRole :> StrVal(StrX))}]

InitDedup ==
    /\ NoAnalysis
    /\ NoService
    /\ text = <<>>
    /\ lx_text = <<>>
    /\ pc = "extracted"
    /\ objects \in SeqsUpTo(RawEntities, MaxStream)
    /\ extractions = [i \in 1..Len(objects) |-> i]
    /\ given = <<>>
    /\ all_attributes = <<>>
    /\ merged = <<>>

\* result.extractions = _deduplicate_extractions(result.extractions)
Deduplicate ==
    /\ pc = "extracted"
    /\ LET r == DeduplicateExtractions(objects, extractions)
       IN  /\ objects' = r.objects
           /\ extractions' = r.deduplicated
    /\ given' = ValuesOf(objects, extractions)
    /\ pc' = "deduplicated"
    /\ UNCHANGED <<all_attributes, merged, text, lx_text, analyzeVars, serviceVars>>

\* _deduplicate_extractions applied to the list it returned.
DeduplicateAgain ==
    /\ pc = "deduplicated"
    /\ LET r == DeduplicateExtractions(objects, extractions)
       IN  /\ objects' = r.objects
           /\ extractions' = r.deduplicated
    /\ given' = ValuesOf(objects, extractions)
    /\ pc' = "deduplicated_twice"
    /\ UNCHANGED <<all_attributes, merged, text, lx_text, analyzeVars, serviceVars>>

NextDedup == Deduplicate \/ DeduplicateAgain

SpecDedup == InitDedup /\ [][NextDedup]_vars

(***************************************************************************)
(* The deduplicator on entities whose attributes are of every shape        *)
(* lx.extract can leave there: None, the empty dict, a value that is no    *)
(* dict (the string "x"), a dict with a key.                               *)
(***************************************************************************)

AttributeShapes ==
    { AttrsNone,
      AttrsDict(<<>>),
      StrVal(StrX),
      AttrsDict(KeyRole :> StrVal(StrX)) }

ShapeEntities ==
    [extraction_class : {"speaker"}, extraction_text : {John, JohnLower},
     attributes : AttributeShapes]

InitShapes ==
    /\ NoAnalysis
    /\ NoService
    /\ text = <<>>
    /\ lx_text = <<>>
    /\ pc = "extracted"
    /\ objects \in SeqsUpTo(ShapeEntities, MaxStream)
    /\ extractions = [i \in 1..Len(objects) |-> i]
    /\ given = <<>>
    /\ all_attributes = <<>>
    /\ merged = <<>>

SpecShapes == InitShapes /\ [][NextDedup]_vars

(***************************************************************************)
(* extract_insights called on a text: words of the letter "a" with spaces  *)
(* at up to MaxSpaces of the places around the limits of the truncation,   *)
(* in texts of the lengths around the threshold and the chunk size.        *)
(***************************************************************************)

MaxSpaces == 2

TextLengths ==
    {0, 1, ChunkSize - 1, ChunkSize, ChunkSize + 1,
     LongTextThreshold - 1, LongTextThreshold, LongTextThreshold + 1, 10000}

\* 0-based indexes at which a text may hold a space.
SpacePlaces ==
    {0, ChunkSize - WordBoundaryWindow - 1, ChunkSize - WordBoundaryWindow,
     ChunkSize - WordBoundaryWindow + 1, ChunkSize - 1, ChunkSize, LongTextThreshold}

TextOf(len, spaces) == [i \in 1..len |-> IF (i - 1) \in spaces THEN 32 ELSE 97]

InitTruncate ==
    /\ NoAnalysis
    /\ NoService
    /\ pc = "called"
    /\ \E len \in TextLengths :
          \E spaces \in {S \in SUBSET SpacePlaces : Cardinality(S) <= MaxSpaces} :
              text = TextOf(len, spaces)
    /\ lx_text = <<>>
    /\ objects = <<>>
    /\ extractions = <<>>
    /\ given = <<>>
    /\ all_attributes = <<>>
    /\ merged = <<>>

\* extract_insights up to the call lx.extract(text_or_documents=text, ...)
CallExtract ==
    /\ pc = "called"
    /\ lx_text' = ExtractionInput(text)
    /\ pc' = "extracting"
    /\ UNCHANGED <<text, objects, extractions, given, all_attributes, merged, analyzeVars, serviceVars>>

NextTruncate == CallExtract

SpecTruncate == InitTruncate /\ [][NextTruncate]_vars

(***************************************************************************)
(* The schema lookups called on their own, with the six known tags and     *)
(* with tags that are the value of no DocumentType member.                 *)
(***************************************************************************)

UnknownTags == {"narrative", "poem", "STORY", ""}
Tags == DocumentTypes \cup UnknownTags

InitRegistry ==
    /\ pc = "lookups"
    /\ TEMPLATES = TemplatesAtStartup
    /\ NoLookup
    /\ requests = <<>>
    /\ objects = <<>>
    /\ extractions = <<>>
    /\ NoExtractorCall
    /\ NoService

\* template = get_template(tag)
GetTemplateCall ==
    /\ \E tag \in Tags :
          /\ doc_type' = tag
          /\ template' = GetTemplate(TEMPLATES, tag)
    /\ pc' = "get_template"
    /\ UNCHANGED <<category_order, TEMPLATES, requests, objects, extractions, extractorVars, serviceVars>>

\* category_order = _get_category_order(tag)
GetCategoryOrderCall ==
    /\ \E tag \in Tags :
          /\ doc_type' = tag
          /\ category_order' = <<"dict", GetCategoryOrder(tag)>>
    /\ pc' = "get_category_order"
    /\ UNCHANGED <<template, TEMPLATES, requests, objects, extractions, extractorVars, serviceVars>>

NextRegistry == GetTemplateCall \/ GetCategoryOrderCall

SpecRegistry == InitRegistry /\ [][NextRegistry]_vars

(***************************************************************************)
(* The report of a request whose extract_insights call has returned: a     *)
(* deduplicated list of at most MaxEntities entities, of distinct texts    *)
(* and with dict attributes.  The classes are two that the priority map of *)
(* the document type ranks and one or two that it does not; under the      *)
(* meeting and the general type the entities of one class come with and    *)
(* without a mention count.                                                *)
(***************************************************************************)

MaxEntities == 4

ReportClasses(tag) ==
    CASE tag = "story"     -> {"character", "theme", "topic"}
      [] tag = "meeting"   -> {"speaker", "decision", "topic", "entity"}
      [] tag = "research"  -> {"finding", "function", "topic"}
      [] tag = "technical" -> {"component", "function", "topic"}
      [] tag = "legal"     -> {"party", "obligation", "topic"}
      [] tag = "general"   -> {"topic", "entity", "speaker", "decision"}

\* The attribute maps of the deduplicated entities of a class.
ReportAttributes(tag, cls) ==
    IF (tag = "meeting" /\ cls = "speaker") \/ (tag = "general" /\ cls = "topic")
    THEN {AttrsDict(<<>>),
          AttrsDict(KeyMentionCount :> IntVal(1)),
          AttrsDict(KeyMentionCount :> IntVal(2))}
    ELSE {AttrsDict(<<>>)}

ReportShapes(tag) ==
    UNION {[extraction_class : {cls}, attributes : ReportAttributes(tag, cls)] :
              cls \in ReportClasses(tag)}

\* The text of the entity at place i: "A", "B", ...
NameAt(i) == <<64 + i>>

InitReport ==
    /\ pc = "analyze"
    /\ TEMPLATES = TemplatesAtStartup
    /\ NoLookup
    /\ NoExtractorCall
    /\ NoService
    /\ extractions = <<>>
    /\ \E tag \in DocumentTypes :
          \E shapes \in SeqsUpTo(ReportShapes(tag), MaxEntities) :
              /\ objects = [i \in DOMAIN shapes |->
                              [extraction_class |-> shapes[i].extraction_class,
                               extraction_text |-> NameAt(i),
                               attributes |-> shapes[i].attributes]]
              /\ requests =
                    << [NewRequest(tag, [i \in DOMAIN shapes |-> i], <<>>)
                          EXCEPT !.pc = "extracted",
                                 !.template = GetTemplate(TemplatesAtStartup, tag)] >>

NextReport ==
    \E r \in DOMAIN requests :
        \/ RequestReport(r)
        \/ RequestSummary(r)
        \/ RequestRespond(r)

SpecReport == InitReport /\ [][NextReport]_vars

(***************************************************************************)
(* One request from its classification to its response, on a raw stream of *)
(* at most MaxStream entities drawn from ScenarioEntities.                 *)
(***************************************************************************)

JohnPlain     == <<106, 111, 104, 110>>   \* "john"
ApproveBudget ==                          \* "Approve budget"
    <<65, 112, 112, 114, 111, 118, 101, 32, 98, 117, 100, 103, 101, 116>>

ScenarioEntities ==
    { [extraction_class |-> "speaker", extraction_text |-> John, attributes |-> AttrsNone],
      [extraction_class |-> "speaker", extraction_text |-> JohnPlain,
       attributes |-> AttrsNone],
      [extraction_class |-> "decision", extraction_text |-> ApproveBudget,
       attributes |-> AttrsNone],
      [extraction_class |-> "speaker", extraction_text |-> John,
       attributes |-> AttrsDict(KeyRole :> StrVal(StrX))],
      [extraction_class |-> "speaker", extraction_text |-> JohnPlain,
       attributes |-> AttrsDict(KeyRole :> StrVal(<<>>))] }

InitEndToEnd ==
    /\ pc = "analyze"
    /\ TEMPLATES = TemplatesAtStartup
    /\ NoLookup
    /\ NoExtractorCall
    /\ NoService
    /\ extractions = <<>>
    /\ objects \in SeqsUpTo(ScenarioEntities, MaxStream)
    /\ \E tag \in DocumentTypes :
          requests = << NewRequest(tag, [i \in DOMAIN objects |-> i], objects) >>

NextAnalyze ==
    \E r \in DOMAIN requests :
        \/ RequestTemplate(r)
        \/ RequestDeduplicate(r)
        \/ RequestReport(r)
        \/ RequestSummary(r)
        \/ RequestRespond(r)

SpecEndToEnd == InitEndToEnd /\ [][NextAnalyze]_vars

(***************************************************************************)
(* Two requests in progress at once, their steps interleaved in every      *)
(* order.  Each has a raw stream of at most MaxConcurrentStream entities.  *)
(***************************************************************************)

MaxConcurrentStream == 2

ConcurrentEntities ==
    { [extraction_class |-> "speaker", extraction_text |-> John, attributes |-> AttrsNone],
      [extraction_class |-> "speaker", extraction_text |-> JohnPlain,
       attributes |-> AttrsDict(KeyRole :> StrVal(StrX))] }

InitConcurrent ==
    /\ pc = "analyze"
    /\ TEMPLATES = TemplatesAtStartup
    /\ NoLookup
    /\ NoExtractorCall
    /\ NoService
    /\ extractions = <<>>
    /\ \E raw1, raw2 \in SeqsUpTo(ConcurrentEntities, MaxConcurrentStream) :
          /\ objects = raw1 \o raw2
          /\ \E tag1, tag2 \in {"meeting", "general"} :
                requests =
                    << NewRequest(tag1, [i \in DOMAIN raw1 |-> i], raw1),
                       NewRequest(tag2, [i \in DOMAIN raw2 |-> Len(raw1) + i], raw2) >>

SpecConcurrent == InitConcurrent /\ [][NextAnalyze]_vars

(***************************************************************************)
(* One call of /analyze on every upload of a small family: names with the  *)
(* allowed extensions in either case, with another extension, with none;   *)
(* sizes at and past the limit; texts around the minimal length; every     *)
(* answer of the language model.  A job of an earlier run of the server    *)
(* (job 0) has its two directories on disk.                                *)
(***************************************************************************)

MaxClock == 26

\* The hours a Tick lets pass.
Elapsed == {CLEANUP_HOURS \div 2, CLEANUP_HOURS \div 2 + 1}

FileNames ==
    { <<97, 46, 116, 120, 116>>,            \* "a.txt"
      <<65, 46, 84, 88, 84>>,               \* "A.TXT"
      <<97, 46, 80, 100, 102>>,              \* "a.Pdf"
      <<97, 46, 100, 111, 99, 120>>,         \* "a.docx"
      <<116, 101, 115, 116, 46, 120, 121, 122>>,  \* "test.xyz"
      <<110, 111, 116, 101, 115>>,          \* "notes"
      <<46, 116, 120, 116>> }                \* ".txt"

FileSizes ==
    {0, MAX_FILE_SIZE_MB * 1024 * 1024, MAX_FILE_SIZE_MB * 1024 * 1024 + 1}

\* n times the character ch.
Rep(ch, n) == [i \in 1..n |-> ch]

ParsedTexts ==
    { <<>>,
      Rep(32, MinTextLength + 10),
      Rep(120, MinTextLength - 1),
      Rep(120, MinTextLength),
      <<32>> \o Rep(120, MinTextLength - 1) \o <<10>>,
      Rep(120, MinTextLength \div 2) \o <<32>> \o Rep(120, MinTextLength - (MinTextLength \div 2) - 1),
      <<120>> \o Rep(32, MinTextLength - 2) \o <<120>> }

ModelAnswers ==
    {<<"raise">>, <<"no_category">>}
        \cup {<<"category", s>> :
                s \in {"MEETING", "GENERAL", "POEM"}}

\* The directory of a job of an earlier run, created at time 0.
EarlierJob == (0 :> [ctime |-> 0, files |-> {"document"}])
EarlierReport == (0 :> [ctime |-> 0, files |-> {"report.pdf", "data.jsonl"}])


\* The call c answered with the HTTPException e: the handler is left.
Raise(c, e, step) ==
    [calls EXCEPT ![c].pc = "answered", ![c].response = e,
                  ![c].steps = IF step = "" THEN @ ELSE Append(@, step)]

\* except Exception as e: raise HTTPException(status_code=500, ...)
AnalysisFailed(c, step) ==
    Raise(c, HTTPException(500, <<"Analysis failed: ", step>>), step)

\* The call c past the pipeline function step, at the position pc.
Past(c, step, at) == [calls EXCEPT ![c].pc = at, ![c].steps = Append(@, step)]

\* The cutoff taken inclusively: a directory exactly CLEANUP_HOURS old counts
\* as old.
OlderThanCutoffInclusive(root) ==
    {j \in DOMAIN root : root[j].ctime <= now - CLEANUP_HOURS}

\* The directories of root whose ctime is before the cutoff of a cleanup
\* that starts now.
OlderThanCutoff(root) ==
    {j \in DOMAIN root : root[j].ctime < now - CLEANUP_HOURS}

\* The directory of job j under root after the creation of the entry name.
WithEntry(root, j, name) ==
    [k \in DOMAIN root \cup {j} |->
        IF k = j
        THEN [ctime |-> now,
              files |-> (IF j \in DOMAIN root THEN root[j].files ELSE {}) \cup name]
        ELSE root[k]]

\* root without the directories of the jobs in gone (shutil.rmtree of each).
Without(root, gone) == [k \in DOMAIN root \ gone |-> root[k]]

\* analyze_document up to the job id: the two validations, then uuid4.
Validate(c) ==
    /\ calls[c].pc = "received"
    /\ LET e == Rejection(calls[c].filename, calls[c].size)
       IN  IF e[1] = "raise"
           THEN calls' = Raise(c, e[2], "")
           ELSE calls' = [calls EXCEPT ![c].pc = "accepted",
                                       ![c].file_ext = Lower(SplitExt(calls[c].filename)),
                                       ![c].job_id = <<"job", c>>]
    /\ UNCHANGED <<upload_dirs, report_dirs, now, fetched, coreVars>>

\* file_path = await save_upload_file(file, job_id): the directory of the
\* job, then the document in it; either may raise.
SaveUpload(c) ==
    /\ calls[c].pc = "accepted"
    /\ \E outcome \in {"saved", "makedirs raises", "open raises"} :
          /\ upload_dirs' =
                IF outcome = "makedirs raises" THEN upload_dirs
                ELSE WithEntry(upload_dirs, calls[c].job_id[2],
                               IF outcome = "saved" THEN {"document"} ELSE {})
          /\ calls' = IF outcome = "saved" THEN Past(c, "save_upload_file", "saved")
                      ELSE AnalysisFailed(c, "save_upload_file")
    /\ UNCHANGED <<report_dirs, now, fetched, coreVars>>

\* text = parse_document(file_path, file_ext), then the test of the text.
Parse(c) ==
    /\ calls[c].pc = "saved"
    /\ LET content == calls[c].content
       IN  calls' =
            IF content[1] = "raise" THEN AnalysisFailed(c, "parse_document")
            ELSE IF TooShort(content[2])
            THEN Raise(c, HTTPException(400, <<"Document appears to be empty or too short">>),
                       "parse_document")
            ELSE [Past(c, "parse_document", "parsed") EXCEPT ![c].text = content[2]]
    /\ UNCHANGED <<upload_dirs, report_dirs, now, fetched, coreVars>>

\* classification = classify_document(text)
Classify(c) ==
    /\ calls[c].pc = "parsed"
    /\ calls' = [Past(c, "classify_document", "classified")
                    EXCEPT ![c].classification = ClassifyDocument(calls[c].answer)]
    /\ UNCHANGED <<upload_dirs, report_dirs, now, fetched, coreVars>>

\* extraction_result = extract_insights(text, classification.document_type)
Extract(c) ==
    /\ calls[c].pc = "classified"
    /\ \E raises \in BOOLEAN :
          calls' = IF raises THEN AnalysisFailed(c, "extract_insights")
                   ELSE Past(c, "extract_insights", "extracted")
    /\ UNCHANGED <<upload_dirs, report_dirs, now, fetched, coreVars>>

\* report_path = generate_pdf_report(...): the directory of the job under
\* REPORT_DIR, then report.pdf in it; either may raise.
Report(c) ==
    /\ calls[c].pc = "extracted"
    /\ \E outcome \in {"built", "makedirs raises", "build raises"} :
          /\ report_dirs' =
                IF outcome = "makedirs raises" THEN report_dirs
                ELSE WithEntry(report_dirs, calls[c].job_id[2],
                               IF outcome = "built" THEN {"report.pdf"} ELSE {})
          /\ calls' = IF outcome = "built" THEN Past(c, "generate_pdf_report", "reported")
                      ELSE AnalysisFailed(c, "generate_pdf_report")
    /\ UNCHANGED <<upload_dirs, now, fetched, coreVars>>

\* lx.io.save_annotated_documents([extraction_result], "data.jsonl", output_dir)
SaveData(c) ==
    /\ calls[c].pc = "reported"
    /\ \E raises \in BOOLEAN :
          /\ report_dirs' = IF raises THEN report_dirs
                            ELSE WithEntry(report_dirs, calls[c].job_id[2], {"data.jsonl"})
          /\ calls' = IF raises THEN AnalysisFailed(c, "save_annotated_documents")
                      ELSE Past(c, "save_annotated_documents", "data_saved")
    /\ UNCHANGED <<upload_dirs, now, fetched, coreVars>>

\* summary = _generate_summary(...); await cleanup_old_files(): the upload
\* directories before the cutoff are removed, then the report directories;
\* an exception (a directory another cleanup has just removed, a permission)
\* ends the removals where it happens and is printed, not raised.
Cleanup(c) ==
    /\ calls[c].pc = "data_saved"
    /\ \E uploads \in SUBSET OlderThanCutoff(upload_dirs),
          reports \in SUBSET OlderThanCutoff(report_dirs) :
          /\ reports # {} => uploads = OlderThanCutoff(upload_dirs)
          /\ upload_dirs' = Without(upload_dirs, uploads)
          /\ report_dirs' = Without(report_dirs, reports)
    /\ calls' = [calls EXCEPT ![c].pc = "cleaned",
                              ![c].steps = @ \o <<"_generate_summary", "cleanup_old_files">>]
    /\ UNCHANGED <<now, fetched, coreVars>>

\* return AnalyzeResponse(job_id=job_id, ..., pdf_url=f"/api/v1/report/{job_id}", ...)
Respond(c) ==
    /\ calls[c].pc = "cleaned"
    /\ calls' = [calls EXCEPT
            ![c].pc = "answered",
            ![c].response = [status_code |-> 200,
                             job_id |-> calls[c].job_id[2],
                             document_type |-> calls[c].classification.document_type,
                             confidence |-> calls[c].classification.confidence,
                             pdf_url |-> <<"/api/v1/report/", calls[c].job_id[2]>>]]
    /\ UNCHANGED <<upload_dirs, report_dirs, now, fetched, coreVars>>

\* get_report(job_id)
GetReportStatus(root, job_id) ==
    IF job_id \in DOMAIN root /\ "report.pdf" \in root[job_id].files THEN 200 ELSE 404

\* GET /report/{job_id}, for the job of some call or for a job of an
\* earlier run of the server.
GetReport ==
    /\ \E job_id \in 0..Len(calls) :
          fetched' = <<"report", job_id, GetReportStatus(report_dirs, job_id)>>
    /\ UNCHANGED <<calls, upload_dirs, report_dirs, now, coreVars>>

\* Time passes.
Tick ==
    /\ \E hours \in Elapsed :
          /\ now + hours <= MaxClock
          /\ now' = now + hours
    /\ UNCHANGED <<calls, upload_dirs, report_dirs, fetched, coreVars>>

NextService ==
    \/ \E c \in DOMAIN calls :
          \/ Validate(c)
          \/ SaveUpload(c)
          \/ Parse(c)
          \/ Classify(c)
          \/ Extract(c)
          \/ Report(c)
          \/ SaveData(c)
          \/ Cleanup(c)
          \/ Respond(c)
    \/ GetReport
    \/ Tick

InitService ==
    /\ pc = "service"
    /\ NoAnalysis
    /\ NoExtractorCall
    /\ objects = <<>>
    /\ extractions = <<>>
    /\ \E filename \in FileNames, size \in FileSizes,
          content \in {<<"text", t>> : t \in ParsedTexts} \cup {<<"raise">>},
          answer \in ModelAnswers :
          calls = << NewCall(filename, size, content, answer) >>
    /\ upload_dirs = EarlierJob
    /\ report_dirs = EarlierReport
    /\ now = 0
    /\ fetched = <<"none">>

SpecService == InitService /\ [][NextService]_vars

(***************************************************************************)
(* Two calls of /analyze at once, their steps interleaved in every order   *)
(* with one another and with the passing of time, on uploads that pass the *)
(* validations.  A call in progress is taken to be younger than the        *)
(* cutoff: time does not pass beyond CLEANUP_HOURS from the latest write   *)
(* into a directory of a call that has not been answered yet.              *)
(***************************************************************************)

\* The calls the handler is working on.
InProgress == {c \in DOMAIN calls : calls[c].pc \notin {"received", "answered"}}

\* No directory of a call in progress is older than CLEANUP_HOURS.
TimelyCalls ==
    \A c \in InProgress :
        /\ c \in DOMAIN upload_dirs => now - upload_dirs[c].ctime <= CLEANUP_HOURS
        /\ c \in DOMAIN report_dirs => now - report_dirs[c].ctime <= CLEANUP_HOURS

\* Time passes, no call in progress outlasting the retention period.
TimelyTick == Tick /\ TimelyCalls'

InitCleanup ==
    /\ pc = "service"
    /\ NoAnalysis
    /\ NoExtractorCall
    /\ objects = <<>>
    /\ extractions = <<>>
    /\ LET call == NewCall(<<97, 46, 116, 120, 116>>, 0,
                           <<"text", Rep(120, MinTextLength)>>, <<"category", "MEETING">>)
       IN  calls = <<call, call>>
    /\ upload_dirs = EarlierJob
    /\ report_dirs = EarlierReport
    /\ now = 0
    /\ fetched = <<"none">>

NextCleanup ==
    \/ \E c \in DOMAIN calls :
          \/ Validate(c)
          \/ SaveUpload(c)
          \/ Parse(c)
          \/ Classify(c)
          \/ Extract(c)
          \/ Report(c)
          \/ SaveData(c)
          \/ Cleanup(c)
          \/ Respond(c)
    \/ GetReport
    \/ TimelyTick

SpecCleanup == InitCleanup /\ [][NextCleanup]_vars

----
(***************************************************************************)
(* Vocabulary of the claims about the merger, stated on the input list.    *)
(***************************************************************************)

\* The keys some map of L mentions.
KeysOf(L) == UNION {DOMAIN L[i] : i \in 1..Len(L)}

\* The positions of L whose map holds k with a non-empty value.
NonEmptyAt(L, k) == {i \in 1..Len(L) : k \in DOMAIN L[i] /\ Truthy(L[i][k])}

\* The distinct string forms of the non-empty values L holds for k.
DistinctForms(L, k) == {Str(L[i][k]) : i \in NonEmptyAt(L, k)}

\* The companion keys the merger has to generate for L.
Companions(L) ==
    {VariationsKey(k) : k \in {j \in KeysOf(L) : Cardinality(DistinctForms(L, j)) > 1}}

MinOf(S) == CHOOSE i \in S : \A j \in S : i <= j

\* C2: for every key that some map holds with a non-empty value (and that is
\* not a companion key this merge generates), the merged value is the value of
\* the first map in input order that holds the key with a non-empty value.
C2_FirstNonEmptyValue ==
    pc = "merge_return" =>
        \A k \in KeysOf(all_attributes) \ Companions(all_attributes) :
            NonEmptyAt(all_attributes, k) # {} =>
                /\ k \in DOMAIN merged
                /\ merged[k] = all_attributes[MinOf(NonEmptyAt(all_attributes, k))][k]

\* C3: a key other than a generated companion key is in the merged map only
\* if some input map holds it with a non-empty value, and no merged value is
\* empty.
C3_NoEmptyMergedValue ==
    pc = "merge_return" =>
        \A k \in DOMAIN merged \ Companions(all_attributes) :
            /\ NonEmptyAt(all_attributes, k) # {}
            /\ Truthy(merged[k])

\* C6: the companion key "k_variations" is added exactly when the non-empty
\* values of k have more than one distinct string form, and then holds those
\* forms sorted and joined with ", "; otherwise the key is in the result only
\* as an input key with its first input value. No maps, empty result.
C6_VariationsIffSeveralDistinct ==
    pc = "merge_return" =>
        /\ all_attributes = <<>> => merged = <<>>
        /\ \A k \in KeysOf(all_attributes) :
              LET kv == VariationsKey(k)
                  forms == DistinctForms(all_attributes, k)
                  holders == {i \in 1..Len(all_attributes) : kv \in DOMAIN all_attributes[i]}
              IN  IF Cardinality(forms) > 1
                  THEN /\ kv \in DOMAIN merged
                       /\ merged[kv] = StrVal(Join(<<44, 32>>, Sorted(forms)))
                  ELSE kv \in DOMAIN merged =>
                          /\ holders # {}
                          /\ merged[kv] = all_attributes[MinOf(holders)][kv]

\* Witness of C6: [{a: "x"}, {a: "y"}] has merged to {a: "x", a_variations: "x, y"}.
C6_Witness ==
    /\ pc = "merge_return"
    /\ all_attributes = <<KeyA :> StrVal(StrX), KeyA :> StrVal(StrY)>>
    /\ merged = (KeyA :> StrVal(StrX)) @@ (KeyAVar :> StrVal(StrXY))

\* The permutations of 1..n.
Perms(n) == {p \in [1..n -> 1..n] : \A i, j \in 1..n : p[i] = p[j] => i = j}

\* The keys of a merged map that are spelled "<key>_variations".
VariationsKeysIn(m) == {k \in DOMAIN m : k[Len(k)] = "_variations"}

\* C7: merging any permutation of the input maps gives the same set of
\* "<key>_variations" keys and the same value for every generated companion key.
C7_VariationsOrderIndependent ==
    pc = "merge_return" =>
        \A p \in Perms(Len(all_attributes)) :
            LET permuted == [i \in 1..Len(all_attributes) |-> all_attributes[p[i]]]
                other == MergeAttributes(permuted)
            IN  /\ VariationsKeysIn(other) = VariationsKeysIn(merged)
                /\ \A kv \in Companions(all_attributes) :
                      /\ kv \in DOMAIN other
                      /\ kv \in DOMAIN merged
                      /\ other[kv] = merged[kv]

\* Witness of C7: [{a: "y"}, {a: "x"}] has merged to a = "y" (the representative
\* follows the order) and a_variations = "x, y" (the same as for [{a: "x"}, {a: "y"}]).
C7_Witness ==
    /\ pc = "merge_return"
    /\ all_attributes = <<KeyA :> StrVal(StrY), KeyA :> StrVal(StrX)>>
    /\ merged[KeyA] = StrVal(StrY)
    /\ merged[KeyAVar] = StrVal(StrXY)

----
(***************************************************************************)
(* Vocabulary of the claims about the deduplicator: `given` is the stream  *)
(* handed to the latest call, Output the entities it returned.             *)
(***************************************************************************)

Deduplicated == pc \in {"deduplicated", "deduplicated_twice"}

Output == ValuesOf(objects, extractions)

\* The identity rule: the same class, and the same text once surrounding
\* whitespace is trimmed and the case is folded.
SameIdentity(e, f) ==
    /\ e.extraction_class = f.extraction_class
    /\ Lower(Strip(e.extraction_text)) = Lower(Strip(f.extraction_text))

\* The positions of the given stream with the identity of e.
MentionsOf(e) == {i \in 1..Len(given) : SameIdentity(given[i], e)}

\* Whether a raw entity's attributes hold the key k.
Carries(e, k) == e.attributes[1] = "dict" /\ k \in DOMAIN e.attributes[2]

\* C1: the deduplicated list has one entity per distinct identity of the
\* input: as many entities as identities, no identity twice, none missing.
C1_OnePerIdentity ==
    Deduplicated =>
        /\ Len(Output) = Cardinality({MentionsOf(given[i]) : i \in 1..Len(given)})
        /\ \A i, j \in 1..Len(Output) : SameIdentity(Output[i], Output[j]) => i = j
        /\ \A i \in 1..Len(given) : \E j \in 1..Len(Output) : SameIdentity(given[i], Output[j])

\* Witness of C1: [speaker "John", speaker " john\n", decision "John"] has
\* deduplicated to two entities.
C1_Witness ==
    /\ pc = "deduplicated"
    /\ Len(given) = 3
    /\ given[1].extraction_class = "speaker" /\ given[1].extraction_text = John
    /\ given[2].extraction_class = "speaker" /\ given[2].extraction_text = JohnLower
    /\ given[3].extraction_class = "decision" /\ given[3].extraction_text = John
    /\ Len(Output) = 2

\* C4 as stated: a merged entity of a single mention has no mention_count key,
\* whatever the input carried; one of n > 1 mentions has mention_count = n.
C4_CountKeyOnlyWhenSeveral ==
    Deduplicated =>
        \A j \in 1..Len(Output) :
            LET n == Cardinality(MentionsOf(Output[j]))
                attrs == Output[j].attributes[2]
            IN  IF n = 1
                THEN KeyMentionCount \notin DOMAIN attrs
                ELSE KeyMentionCount \in DOMAIN attrs /\ attrs[KeyMentionCount] = IntVal(n)

\* C4 amended: a merged entity of n > 1 mentions has mention_count = n; one of
\* a single mention has a mention_count key exactly when that mention's own
\* attributes carried one, and then with the value it carried.
C4_CountKeyUnlessCarried ==
    Deduplicated =>
        \A j \in 1..Len(Output) :
            LET n == Cardinality(MentionsOf(Output[j]))
                attrs == Output[j].attributes[2]
                raw == given[MinOf(MentionsOf(Output[j]))]
            IN  IF n = 1
                THEN /\ KeyMentionCount \in DOMAIN attrs <=> Carries(raw, KeyMentionCount)
                     /\ Carries(raw, KeyMentionCount) =>
                            attrs[KeyMentionCount] = raw.attributes[2][KeyMentionCount]
                ELSE KeyMentionCount \in DOMAIN attrs /\ attrs[KeyMentionCount] = IntVal(n)

\* Witness of C4: one call has collapsed two mentions into an entity with
\* mention_count 2 and kept a single mention that carried mention_count 5 with
\* that value.
C4_Witness ==
    /\ pc = "deduplicated"
    /\ \E j \in 1..Len(Output) :
          /\ Cardinality(MentionsOf(Output[j])) = 2
          /\ Output[j].attributes[2][KeyMentionCount] = IntVal(2)
    /\ \E j \in 1..Len(Output) :
          /\ Cardinality(MentionsOf(Output[j])) = 1
          /\ Carries(given[MinOf(MentionsOf(Output[j]))], KeyMentionCount)
          /\ Output[j].attributes[2][KeyMentionCount] = IntVal(5)

\* C5: deduplicating the deduplicated list returns the same entities in the
\* same order with the same attribute maps.
C5_Idempotent ==
    pc = "deduplicated_twice" => Output = given

\* Witness of C5: the second call has run on a list holding an entity with
\* mention_count 2 and role_variations "x, y" beside another entity.
C5_Witness ==
    /\ pc = "deduplicated_twice"
    /\ Len(given) = 2
    /\ given[1].attributes[2] =
          (KeyRole :> StrVal(StrX)) @@ (KeyRoleVar :> StrVal(StrXY))
          @@ (KeyMentionCount :> IntVal(2))

\* C8: the merged entities come in the order in which their identities first
\* appear in the input, each with the class and the raw text of the first
\* mention of its group.
C8_FirstSeenOrderAndText ==
    Deduplicated =>
        /\ \A j \in 1..Len(Output) :
              /\ MentionsOf(Output[j]) # {}
              /\ LET first == given[MinOf(MentionsOf(Output[j]))]
                 IN  /\ Output[j].extraction_class = first.extraction_class
                     /\ Output[j].extraction_text = first.extraction_text
        /\ \A j, k \in 1..Len(Output) :
              j < k => MinOf(MentionsOf(Output[j])) < MinOf(MentionsOf(Output[k]))

\* Witness of C8: [speaker " john\n", decision "John", speaker "John"] has
\* deduplicated to [speaker " john\n", decision "John"].
C8_Witness ==
    /\ pc = "deduplicated"
    /\ Len(given) = 3
    /\ given[3].extraction_class = "speaker" /\ given[3].extraction_text = John
    /\ Len(Output) = 2
    /\ Output[1].extraction_class = "speaker" /\ Output[1].extraction_text = JohnLower
    /\ Output[2].extraction_class = "decision" /\ Output[2].extraction_text = John

----
(***************************************************************************)
(* Vocabulary of the claims about the truncation.                          *)
(***************************************************************************)

IsPrefix(s, t) == Len(s) <= Len(t) /\ \A i \in 1..Len(s) : s[i] = t[i]

\* The 0-based indexes from lo to hi at which the text holds a space.
SpacesIn(t, lo, hi) == {i \in lo..hi : i + 1 <= Len(t) /\ t[i + 1] = 32}

MaxOf(S) == CHOOSE i \in S : \A j \in S : j <= i

\* C9 as stated: a text longer than 8000 is cut to a prefix of at most 4000
\* characters: at the last space among the last 200 characters of its first
\* 4000 (indexes 3800..3999) when there is one, else at exactly 4000.
C9_CutInLast200 ==
    (pc = "extracting" /\ Len(text) > 8000) =>
        LET window == SpacesIn(text, 4000 - 200, 4000 - 1)
        IN  /\ IsPrefix(lx_text, text)
            /\ Len(lx_text) <= 4000
            /\ IF window # {} THEN Len(lx_text) = MaxOf(window)
                              ELSE Len(lx_text) = 4000

\* C9 amended: the cut is at the last space among the last 199 characters of
\* the first 4000 (indexes 3801..3999) when there is one, else at exactly 4000.
C9_CutInLast199 ==
    (pc = "extracting" /\ Len(text) > 8000) =>
        LET window == SpacesIn(text, 4000 - 199, 4000 - 1)
        IN  /\ IsPrefix(lx_text, text)
            /\ Len(lx_text) <= 4000
            /\ IF window # {} THEN Len(lx_text) = MaxOf(window)
                              ELSE Len(lx_text) = 4000

\* Witness of C9: a text of 10000 characters with spaces at indexes 3801 and
\* 4000 has been cut to its first 3801 characters.
C9_Witness ==
    /\ pc = "extracting"
    /\ Len(text) = 10000
    /\ SpacesIn(text, 0, 9999) = {3801, 4000}
    /\ Len(lx_text) = 3801

\* C10: a text of at most 8000 characters reaches the extraction unchanged.
C10_ShortTextUnchanged ==
    (pc = "extracting" /\ Len(text) <= 8000) => lx_text = text

\* Witness of C10: a text of 8000 characters with a space at index 3999 has
\* been handed over whole.
C10_Witness ==
    /\ pc = "extracting"
    /\ Len(text) = 8000
    /\ SpacesIn(text, 0, 7999) = {3999}
    /\ Len(lx_text) = 8000

----
(***************************************************************************)
(* Vocabulary of the claims about the report, stated on the deduplicated   *)
(* list a request hands to generate_pdf_report and on the report it gets.  *)
(***************************************************************************)

\* The requests whose report has been generated.
Reported == {r \in DOMAIN requests : requests[r].report # <<"none">>}

ReportOf(r) == requests[r].report[2]

TypeOf(r) == requests[r].classification.document_type

\* The list handed to generate_pdf_report.
EntitiesOf(r) == ValuesOf(objects, requests[r].extractions)

ClassesIn(es) == {es[i].extraction_class : i \in DOMAIN es}

\* The places of the list that hold an entity of class c.
PlacesOf(es, c) == {i \in DOMAIN es : es[i].extraction_class = c}

\* The place at which class c is first encountered.
FirstPlace(es, c) == MinOf(PlacesOf(es, c))

\* The mention count of an entity, 1 when it has no such attribute.
Mentions(e) ==
    IF Carries(e, KeyMentionCount) THEN e.attributes[2][KeyMentionCount][2] ELSE 1

\* The priority map of a known document type.
Ranks(tag) == CategoryOrders[tag]

\* The class a section of the detailed listing is headed by.
ClassOfSection(es, section) ==
    CHOOSE c \in ClassesIn(es) : DisplayName(c) = section.title

\* C11: the detailed listing has one section per class of the list; ranked
\* classes come in ascending priority rank of the document type, every
\* unranked class comes after every ranked one, and unranked classes come in
\* the order of their first encounter.
C11_SectionsByPriorityRank ==
    \A r \in Reported :
        LET es == EntitiesOf(r)
            sections == ReportOf(r).detailed_sections
            cls(i) == ClassOfSection(es, sections[i])
            ranked(c) == c \in DOMAIN Ranks(TypeOf(r))
        IN  /\ Len(sections) = Cardinality(ClassesIn(es))
            /\ \A c \in ClassesIn(es) :
                   \E i \in DOMAIN sections : sections[i].title = DisplayName(c)
            /\ \A i, j \in DOMAIN sections :
                   i < j =>
                      /\ ranked(cls(j)) => ranked(cls(i))
                      /\ ranked(cls(i)) /\ ranked(cls(j)) =>
                            Ranks(TypeOf(r))[cls(i)] < Ranks(TypeOf(r))[cls(j)]
                      /\ ~ranked(cls(i)) /\ ~ranked(cls(j)) =>
                            FirstPlace(es, cls(i)) < FirstPlace(es, cls(j))

\* Witness of C11: under the meeting schema a list met in the order entity,
\* decision, topic, speaker is listed as Speaker, Decision, Entity, Topic.
C11_Witness ==
    \E r \in Reported :
        /\ TypeOf(r) = "meeting"
        /\ [i \in DOMAIN EntitiesOf(r) |-> EntitiesOf(r)[i].extraction_class]
              = <<"entity", "decision", "topic", "speaker">>
        /\ [i \in DOMAIN ReportOf(r).detailed_sections |->
                ReportOf(r).detailed_sections[i].title]
              = << <<83, 112, 101, 97, 107, 101, 114>>,
                   <<68, 101, 99, 105, 115, 105, 111, 110>>,
                   <<69, 110, 116, 105, 116, 121>>,
                   <<84, 111, 112, 105, 99>> >>

\* The place in the list of the entity a listed item shows.
PlaceOfItem(es, c, item) ==
    CHOOSE i \in PlacesOf(es, c) : es[i].extraction_text = item.extraction_text

\* C12: a section lists every entity of its class once, by mention count
\* descending (an entity without the attribute counting as 1), entities of
\* equal count in the order in which the list holds them.
C12_ItemsByMentionCount ==
    \A r \in Reported :
        LET es == EntitiesOf(r)
            sections == ReportOf(r).detailed_sections
        IN  \A s \in DOMAIN sections :
                LET c == ClassOfSection(es, sections[s])
                    items == sections[s].items
                    at(p) == PlaceOfItem(es, c, items[p])
                IN  /\ Len(items) = Cardinality(PlacesOf(es, c))
                    /\ {at(p) : p \in DOMAIN items} = PlacesOf(es, c)
                    /\ \A p, q \in DOMAIN items :
                           p < q =>
                              \/ Mentions(es[at(p)]) > Mentions(es[at(q)])
                              \/ /\ Mentions(es[at(p)]) = Mentions(es[at(q)])
                                 /\ at(p) < at(q)

\* Witness of C12: speakers A (no count), B (count 1), C (count 2) and D (no
\* count) are listed C, A, B, D.
C12_Witness ==
    \E r \in Reported :
        LET es == EntitiesOf(r)
            sections == ReportOf(r).detailed_sections
        IN  /\ [i \in DOMAIN es |-> es[i].extraction_class]
                  = <<"speaker", "speaker", "speaker", "speaker">>
            /\ [i \in DOMAIN es |-> Mentions(es[i])] = <<1, 1, 2, 1>>
            /\ ~Carries(es[1], KeyMentionCount)
            /\ Carries(es[2], KeyMentionCount)
            /\ ~Carries(es[4], KeyMentionCount)
            /\ Len(sections) = 1
            /\ [p \in DOMAIN sections[1].items |-> sections[1].items[p].extraction_text]
                  = << <<67>>, <<65>>, <<66>>, <<68>> >>

\* The label a key-insight line starts with, for a class of n members.
IsLineOf(line, c, n) ==
    \/ IsPrefix(DisplayName(c) \o <<58>>, line)
    \/ IsPrefix(DisplayName(c) \o <<32, 40>> \o Digits(n), line)

\* C13: the key insights hold exactly one line per class of the list, in the
\* order in which the classes are first encountered in the list.
C13_InsightPerClassInEncounterOrder ==
    \A r \in Reported :
        LET es == EntitiesOf(r)
            lines == ReportOf(r).key_insights
        IN  /\ Len(lines) = Cardinality(ClassesIn(es))
            /\ \A c \in ClassesIn(es) :
                   LET k == Cardinality({d \in ClassesIn(es) :
                                            FirstPlace(es, d) <= FirstPlace(es, c)})
                   IN  IsLineOf(lines[k], c, Cardinality(PlacesOf(es, c)))

\* Witness of C13: under the general schema, which ranks entity first, the
\* list [topic, entity, topic] gives the line of Topic before that of Entity.
C13_Witness ==
    \E r \in Reported :
        /\ TypeOf(r) = "general"
        /\ [i \in DOMAIN EntitiesOf(r) |-> EntitiesOf(r)[i].extraction_class]
              = <<"topic", "entity", "topic">>
        /\ Len(ReportOf(r).key_insights) = 2
        /\ IsPrefix(<<84, 111, 112, 105, 99, 58>>, ReportOf(r).key_insights[1])
        /\ IsPrefix(<<69, 110, 116, 105, 116, 121, 58>>, ReportOf(r).key_insights[2])

\* The members of class c by mention count descending, ties in the order of
\* the list: the place of the k-th of them.
TopPlace(es, c, k) ==
    CHOOSE i \in PlacesOf(es, c) :
        Cardinality({j \in PlacesOf(es, c) :
                        \/ Mentions(es[j]) > Mentions(es[i])
                        \/ Mentions(es[j]) = Mentions(es[i]) /\ j < i}) = k - 1

\* The k-th member of class c in the order of the list.
MemberPlace(es, c, k) ==
    CHOOSE i \in PlacesOf(es, c) :
        Cardinality({j \in PlacesOf(es, c) : j < i}) = k - 1

\* The line that the claim gives a class of the list.
ExpectedLine(es, c) ==
    LET n == Cardinality(PlacesOf(es, c))
        member(k) == es[MemberPlace(es, c, k)].extraction_text
        top(k) == es[TopPlace(es, c, k)].extraction_text
        label == DisplayName(c)
    IN  CASE n = 1 -> label \o <<58, 32>> \o member(1)
          [] n = 2 -> label \o <<58, 32>> \o member(1) \o <<44, 32>> \o member(2)
          [] n = 3 -> label \o <<58, 32>> \o member(1) \o <<44, 32>> \o member(2)
                      \o <<44, 32>> \o member(3)
          [] OTHER -> label \o <<32, 40>> \o Digits(n)
                      \o <<32, 116, 111, 116, 97, 108, 41, 58, 32>>
                      \o top(1) \o <<44, 32>> \o top(2) \o <<44, 32>> \o top(3)
                      \o <<44, 32, 97, 110, 100, 32, 111, 116, 104, 101, 114, 115>>

\* C14: the line of a class of n members is its label and, for n = 1, the
\* text of the member; for n = 2 or 3, the texts of the members in the order
\* of the list, joined by ", "; for n > 3, the label with " (n total)" and
\* the texts of the three members of highest mention count (none counting as
\* 1, ties in the order of the list), followed by ", and others".
C14_InsightContentByClassSize ==
    \A r \in Reported :
        LET es == EntitiesOf(r)
            lines == ReportOf(r).key_insights
        IN  \A c \in ClassesIn(es) :
                \E k \in DOMAIN lines : lines[k] = ExpectedLine(es, c)

\* Witness of C14: speakers A (no count), B (count 2), C (count 1) and D
\* (count 2) give "Speaker (4 total): B, D, A, and others".
C14_Witness ==
    \E r \in Reported :
        LET es == EntitiesOf(r)
        IN  /\ [i \in DOMAIN es |-> es[i].extraction_class]
                  = <<"speaker", "speaker", "speaker", "speaker">>
            /\ ~Carries(es[1], KeyMentionCount)
            /\ [i \in DOMAIN es |-> Mentions(es[i])] = <<1, 2, 1, 2>>
            /\ ReportOf(r).key_insights =
                  << <<83, 112, 101, 97, 107, 101, 114, 32, 40, 52, 32, 116, 111, 116, 97, 108, 41, 58, 32, 66, 44, 32, 68, 44, 32, 65, 44, 32, 97, 110, 100, 32, 111, 116, 104, 101, 114, 115>> >>

\* C15: a lookup with a tag that is the value of no DocumentType member
\* resolves to the general schema: get_template returns the general
\* template and _get_category_order returns the general priority map.
C15_UnknownTagResolvesToGeneral ==
    doc_type \notin DocumentTypes =>
        /\ pc = "get_template" => template = <<"template", GENERAL_TEMPLATE>>
        /\ pc = "get_category_order" =>
              category_order = <<"dict", CategoryOrders["general"]>>

\* Every count that the type-specific paragraph of an executive summary states.
CountsStated(paragraph) ==
    IF paragraph.kind = "general" THEN {paragraph.total_entities}
    ELSE {paragraph.counts[i] : i \in DOMAIN paragraph.counts}

\* C16: for an empty entity list the report is generated, its executive
\* summary has its three paragraphs with every count zero, its key insights
\* and its detailed listing are empty, and the summary message is the "No
\* significant insights" text.
C16_EmptyListDegeneratePayload ==
    \A r \in DOMAIN requests :
        EntitiesOf(r) = <<>> =>
            /\ requests[r].pc = "extracted" => ENABLED RequestReport(r)
            /\ requests[r].pc = "reported" => ENABLED RequestSummary(r)
            /\ r \in Reported =>
                  LET paragraphs == ReportOf(r).executive_summary
                  IN  /\ Len(paragraphs) = 3
                      /\ CountsStated(paragraphs[2]) \subseteq {0}
                      /\ paragraphs[3].total_extractions = 0
                      /\ paragraphs[3].unique_classes = 0
                      /\ ReportOf(r).key_insights = <<>>
                      /\ ReportOf(r).detailed_sections = <<>>
            /\ requests[r].pc = "done" =>
                  requests[r].summary =
                     <<"summary",
                       [message |-> "No significant insights extracted from the document."]>>

\* Witness of C16: a meeting document without entities has its report, with
\* the counts 0, 0, 0 of participants, decisions and action items, and its
\* summary message.
C16_Witness ==
    \E r \in Reported :
        /\ EntitiesOf(r) = <<>>
        /\ TypeOf(r) = "meeting"
        /\ requests[r].pc = "done"
        /\ ReportOf(r).executive_summary[2].counts = <<0, 0, 0>>
        /\ requests[r].summary[2].message = NoInsights

\* The classes a document type's paragraph counts.
ClassesCountedFor(tag) ==
    CASE tag = "story"     -> {"character", "theme"}
      [] tag = "meeting"   -> {"speaker", "decision", "action_item"}
      [] tag = "research"  -> {"finding"}
      [] tag = "technical" -> {"component", "function"}
      [] tag = "legal"     -> {"party", "obligation"}
      [] tag = "general"   -> {}

\* C17: the executive summary is three paragraphs: the classification with
\* its confidence and reasoning; the paragraph of the document type, each
\* count of which is the number of entities of its class in the list (0 for
\* a class the list lacks); the closing paragraph with the number of
\* entities and the number of distinct classes of the list.
C17_ExecutiveSummaryThreeParagraphs ==
    \A r \in Reported :
        LET es == EntitiesOf(r)
            paragraphs == ReportOf(r).executive_summary
            second == paragraphs[2]
        IN  /\ Len(paragraphs) = 3
            /\ paragraphs[1] =
                  [kind |-> "classification",
                   document_type |-> TypeOf(r),
                   confidence |-> requests[r].classification.confidence,
                   reasoning |-> requests[r].classification.reasoning]
            /\ second.kind = TypeOf(r)
            /\ IF TypeOf(r) = "general"
               THEN second.total_entities = Len(es)
               ELSE /\ {second.counted[i] : i \in DOMAIN second.counted}
                          = ClassesCountedFor(TypeOf(r))
                    /\ \A i \in DOMAIN second.counted :
                          second.counts[i] =
                              Cardinality(PlacesOf(es, second.counted[i]))
            /\ paragraphs[3] =
                  [kind |-> "overall",
                   total_extractions |-> Len(es),
                   unique_classes |-> Cardinality(ClassesIn(es))]

\* Witness of C17: a meeting document with the entities speaker, decision,
\* speaker: 2 participants, 1 decision, 0 action items; 3 entities in 2
\* classes.
C17_Witness ==
    \E r \in Reported :
        /\ TypeOf(r) = "meeting"
        /\ [i \in DOMAIN EntitiesOf(r) |-> EntitiesOf(r)[i].extraction_class]
              = <<"speaker", "decision", "speaker">>
        /\ ReportOf(r).executive_summary[2].counted
              = <<"speaker", "decision", "action_item">>
        /\ ReportOf(r).executive_summary[2].counts = <<2, 1, 0>>
        /\ ReportOf(r).executive_summary[3].total_extractions = 3
        /\ ReportOf(r).executive_summary[3].unique_classes = 2

\* C18: the raw stream [speaker "John", speaker "john", decision "Approve
\* budget"] of a meeting document is deduplicated to "John" with
\* mention_count 2 and "Approve budget" without a mention_count key, and the
\* detailed listing is the section Speaker with the one entity "John" of
\* count 2, then the section Decision with the one entity "Approve budget"
\* of count 1.
C18_MeetingScenarioEndToEnd ==
    \A r \in DOMAIN requests :
        ( /\ TypeOf(r) = "meeting"
          /\ requests[r].raw =
                << [extraction_class |-> "speaker",
                    extraction_text |-> <<74, 111, 104, 110>>,
                    attributes |-> <<"none">>],
                   [extraction_class |-> "speaker",
                    extraction_text |-> <<106, 111, 104, 110>>,
                    attributes |-> <<"none">>],
                   [extraction_class |-> "decision",
                    extraction_text |->
                        <<65, 112, 112, 114, 111, 118, 101, 32, 98, 117, 100, 103, 101, 116>>,
                    attributes |-> <<"none">>] >> )
        =>
        /\ requests[r].pc \in {"extracted", "reported", "done", "answered"} =>
              EntitiesOf(r) =
                << [extraction_class |-> "speaker",
                    extraction_text |-> <<74, 111, 104, 110>>,
                    attributes |-> <<"dict", <<"mention_count">> :> <<"int", 2>> >>],
                   [extraction_class |-> "decision",
                    extraction_text |->
                        <<65, 112, 112, 114, 111, 118, 101, 32, 98, 117, 100, 103, 101, 116>>,
                    attributes |-> <<"dict", <<>> >>] >>
        /\ r \in Reported =>
              LET sections == ReportOf(r).detailed_sections
              IN  /\ Len(sections) = 2
                  /\ sections[1].title = <<83, 112, 101, 97, 107, 101, 114>>
                  /\ Len(sections[1].items) = 1
                  /\ sections[1].items[1].extraction_text = <<74, 111, 104, 110>>
                  /\ sections[1].items[1].mentioned = 2
                  /\ sections[2].title = <<68, 101, 99, 105, 115, 105, 111, 110>>
                  /\ Len(sections[2].items) = 1
                  /\ sections[2].items[1].extraction_text =
                        <<65, 112, 112, 114, 111, 118, 101, 32, 98, 117, 100, 103, 101, 116>>
                  /\ sections[2].items[1].mentioned = 0
                  /\ Mentions(EntitiesOf(r)[2]) = 1

\* Witness of C18: the request of the scenario has its response, with the
\* two sections Speaker and Decision.
C18_Witness ==
    \E r \in Reported :
        /\ TypeOf(r) = "meeting"
        /\ requests[r].pc = "done"
        /\ [i \in DOMAIN requests[r].raw |-> requests[r].raw[i].extraction_text]
              = <<John, JohnPlain, ApproveBudget>>
        /\ Len(EntitiesOf(r)) = 2
        /\ [i \in DOMAIN ReportOf(r).detailed_sections |->
                ReportOf(r).detailed_sections[i].title]
              = << <<83, 112, 101, 97, 107, 101, 114>>,
                   <<68, 101, 99, 105, 115, 105, 111, 110>> >>

\* C19 as stated: the deduplication leaves every entity of the stream it is
\* given as it was: its class, its text and its attributes.
C19_RawEntitiesUnchanged ==
    pc = "deduplicated" =>
        /\ Len(objects) = Len(given)
        /\ \A i \in DOMAIN given : objects[i] = given[i]

\* C19, amended: the deduplication changes no class and no text; it leaves
\* every entity that is not the first of its identity as it was, and it
\* rebinds the attributes of each first one to the merged dict of its group.
\* The list it returns holds those first entities themselves.
C19_OnlyFirstOfIdentityRebound ==
    pc = "deduplicated" =>
        /\ Len(objects) = Len(given)
        /\ \A i \in DOMAIN given :
              /\ objects[i].extraction_class = given[i].extraction_class
              /\ objects[i].extraction_text = given[i].extraction_text
              /\ IF \E j \in 1..(i - 1) : SameIdentity(given[j], given[i])
                 THEN objects[i] = given[i]
                 ELSE /\ objects[i].attributes[1] = "dict"
                      /\ \E k \in DOMAIN extractions : extractions[k] = i
        /\ \A k \in DOMAIN extractions :
              ~\E j \in 1..(extractions[k] - 1) :
                    SameIdentity(given[j], given[extractions[k]])

\* Witness of C19: of the stream [speaker "John" without attributes, speaker
\* " john\n" with a role], the first entity now counts two mentions and has
\* the role; the second is as it was.
C19_Witness ==
    /\ pc = "deduplicated"
    /\ Len(given) = 2
    /\ given[1].extraction_text = John /\ given[1].attributes = <<"none">>
    /\ given[2].extraction_text = JohnLower
    /\ given[2].attributes = <<"dict", <<"role">> :> <<"str", <<120>> >> >>
    /\ given[1].extraction_class = given[2].extraction_class
    /\ objects[1].attributes =
          <<"dict", (<<"role">> :> <<"str", <<120>> >>)
                    @@ (<<"mention_count">> :> <<"int", 2>>) >>
    /\ objects[2] = given[2]
    /\ extractions = <<1>>

\* What request r produces when it runs alone: its deduplicated list.
AloneEntities(r) ==
    LET raw == requests[r].raw
        d == DeduplicateExtractions(raw, [i \in DOMAIN raw |-> i])
    IN  ValuesOf(d.objects, d.deduplicated)

\* C20: whatever the interleaving of two requests, each one's entities are
\* its raw stream until its own deduplication and, from then on, the list
\* it produces when run alone; its template and its report are those it
\* gets when run alone; the template registry is as it was at startup.
C20_RequestsIndependent ==
    /\ TEMPLATES = TemplatesAtStartup
    /\ \A r \in DOMAIN requests :
          /\ requests[r].pc \in {"classified", "extracting"} =>
                EntitiesOf(r) = requests[r].raw
          /\ requests[r].pc \in {"extracted", "reported", "done", "answered"} =>
                EntitiesOf(r) = AloneEntities(r)
          /\ requests[r].pc # "classified" =>
                requests[r].template = GetTemplate(TemplatesAtStartup, TypeOf(r))
          /\ r \in Reported =>
                ReportOf(r) = GeneratePdfReport(AloneEntities(r),
                                                requests[r].classification)

\* Witness of C20: the second request has run from its template lookup to
\* its report while the first, already deduplicated, waits for its report;
\* each has merged its own two mentions of John.
C20_Witness ==
    /\ Len(requests) = 2
    /\ requests[1].pc = "extracted"
    /\ requests[2].pc = "reported"
    /\ \A r \in {1, 2} :
          /\ Len(requests[r].raw) = 2
          /\ Len(EntitiesOf(r)) = 1
          /\ Mentions(EntitiesOf(r)[1]) = 2
    /\ EntitiesOf(1) # EntitiesOf(2)

\* C21: the detailed listing shows, under each entity, every attribute of
\* the entity but mention_count: each key other than mention_count that the
\* entity's attributes hold has its line, with the value of the key.
C21_EveryAttributeShown ==
    \A r \in Reported :
        LET es == EntitiesOf(r)
            sections == ReportOf(r).detailed_sections
        IN  \A s \in DOMAIN sections :
                \A p \in DOMAIN sections[s].items :
                    LET item == sections[s].items[p]
                        e == es[PlaceOfItem(es, ClassOfSection(es, sections[s]), item)]
                    IN  /\ KeyMentionCount \notin DOMAIN item.attributes
                        /\ e.attributes[1] = "dict" =>
                              \A k \in DOMAIN e.attributes[2] \ {KeyMentionCount} :
                                  /\ k \in DOMAIN item.attributes
                                  /\ item.attributes[k] = Escape(Str(e.attributes[2][k]))

(***************************************************************************)
(* Vocabulary of the claims about the service.                             *)
(***************************************************************************)

\* The calls the handler has started on, and those it has answered.
Started == {c \in DOMAIN calls : calls[c].pc # "received"}
Answered == {c \in DOMAIN calls : calls[c].pc = "answered"}

\* The status of the answer of an answered call.
StatusOf(c) == calls[c].response.status_code

\* The extension of the upload of call c, in lower case.
ExtensionOf(c) == Lower(SplitExt(calls[c].filename))

\* The upload of call c has an extension /analyze accepts; it is too large.
ExtensionAllowed(c) == ExtensionOf(c) \in {DotPdf, DotDocx, DotTxt}
TooLarge(c) == calls[c].size > MAX_FILE_SIZE_MB * 1024 * 1024

\* No job exists for call c: no id, no directory, no pipeline function run.
NoJobOf(c) ==
    /\ calls[c].job_id = <<"none">>
    /\ calls[c].steps = <<>>
    /\ c \notin DOMAIN upload_dirs
    /\ c \notin DOMAIN report_dirs

\* C22: a call whose extension is not .pdf, .docx or .txt in either case is
\* answered 400 "Unsupported file type"; a call that passes this first test
\* and whose upload is larger than MAX_FILE_SIZE_MB is answered 413; in
\* both cases no job exists: no id, no saved upload, no pipeline function
\* run.  Every other call gets its job id.
C22_ExtensionThenSize ==
    \A c \in Started :
        /\ ~ExtensionAllowed(c) =>
              /\ c \in Answered /\ StatusOf(c) = 400
              /\ calls[c].response.detail[1] = "Unsupported file type. Allowed: "
              /\ NoJobOf(c)
        /\ ExtensionAllowed(c) /\ TooLarge(c) =>
              /\ c \in Answered /\ StatusOf(c) = 413
              /\ NoJobOf(c)
        /\ ExtensionAllowed(c) /\ ~TooLarge(c) => calls[c].job_id = <<"job", c>>

\* An upload named "A.TXT" of 10 MB and one byte has been answered 413 and
\* nothing of a job is there.
C22_Witness ==
    \E c \in DOMAIN calls :
        /\ calls[c].filename = <<65, 46, 84, 88, 84>>
        /\ calls[c].size = 10485761
        /\ calls[c].pc = "answered"
        /\ calls[c].response.status_code = 413
        /\ calls[c].job_id = <<"none">>
        /\ calls[c].steps = <<>>
        /\ DOMAIN upload_dirs = {0}

\* C23: each of the six document types has a category priority map, the
\* map of one type is the map of no other type, and the ranks within a map
\* are integers no two classes of the type share.
C23_SixDistinctPriorityMaps ==
    pc = "get_category_order" /\ doc_type \in DocumentTypes =>
        LET order == category_order[2]
        IN  /\ DOMAIN order # {}
            /\ \A cls \in DOMAIN order : order[cls] \in Int
            /\ \A c1, c2 \in DOMAIN order : c1 # c2 => order[c1] # order[c2]
            /\ \A other \in DocumentTypes \ {doc_type} :
                  /\ DOMAIN GetCategoryOrder(other) # {}
                  /\ GetCategoryOrder(other) # order

\* The map of the legal type has been looked up: six classes on the ranks
\* 1 to 6, party first and penalty last.
C23_Witness ==
    /\ pc = "get_category_order"
    /\ doc_type = "legal"
    /\ DOMAIN category_order[2] =
          {"party", "obligation", "clause", "deadline", "term", "penalty"}
    /\ {category_order[2][cls] : cls \in DOMAIN category_order[2]} = 1..6
    /\ category_order[2]["party"] = 1
    /\ category_order[2]["penalty"] = 6

\* The mention counts of the entities of a list, added up.
RECURSIVE TotalMentions(_)
TotalMentions(es) ==
    IF es = <<>> THEN 0 ELSE Mentions(Head(es)) + TotalMentions(Tail(es))

\* C24: when no entity of the raw stream carries a mention_count attribute,
\* the mention counts of the merged entities (1 for an entity without the
\* attribute) add up to the length of the raw stream.
C24_MentionsConserved ==
    pc = "deduplicated" /\ (\A i \in 1..Len(given) : ~Carries(given[i], KeyMentionCount)) =>
        TotalMentions(Output) = Len(given)

\* [speaker "Jo hn", speaker "John", speaker " john\n"], none with a
\* mention_count, has deduplicated to "Jo hn" without the attribute and
\* "John" with mention_count 2: 1 + 2 = 3.
C24_Witness ==
    /\ pc = "deduplicated"
    /\ Len(given) = 3
    /\ \A i \in 1..3 : given[i].extraction_class = "speaker"
    /\ given[1].extraction_text = <<74, 111, 32, 104, 110>>
    /\ given[2].extraction_text = <<74, 111, 104, 110>>
    /\ given[3].extraction_text = <<32, 106, 111, 104, 110, 10>>
    /\ \A i \in 1..3 : given[i].attributes = <<"none">>
    /\ Len(Output) = 2
    /\ Output[1].attributes = <<"dict", <<>>>>
    /\ Output[2].attributes = <<"dict", (<<"mention_count">> :> <<"int", 2>>)>>

\* The requests that have their response, and the response of one.
Responded == {r \in DOMAIN requests : requests[r].response # <<"none">>}
ResponseOf(r) == requests[r].response[2]

\* int(s) for a string of decimal digits.
RECURSIVE IntOf(_)
IntOf(s) ==
    IF s = <<>> THEN 0 ELSE 10 * IntOf(SubSeq(s, 1, Len(s) - 1)) + (s[Len(s)] - 48)

\* The counts of the rows of a count table, added up.
RECURSIVE TotalOfRows(_)
TotalOfRows(rows) ==
    IF rows = <<>> THEN 0 ELSE IntOf(Head(rows)[2]) + TotalOfRows(Tail(rows))

\* The places (section, item) of the detailed listing that list entity e.
ListingsOf(sections, e) ==
    LET places == UNION {{<<s, p>> : p \in DOMAIN sections[s].items} : s \in DOMAIN sections}
    IN  {sp \in places :
            /\ sections[sp[1]].title = DisplayName(e.extraction_class)
            /\ sections[sp[1]].items[sp[2]].extraction_text = e.extraction_text}

\* C25: in every report the key-insight lines, the sections of the detailed
\* listing, the rows of the count table and the distinct-class count of the
\* executive summary are equally many; the counts of the table add up to
\* the total entity count; every entity is listed in exactly one section,
\* once; and the extraction_count of the response is the length of its
\* extractions list.
C25_AggregatesConsistent ==
    /\ \A r \in Reported :
          LET es == EntitiesOf(r)
              report == ReportOf(r)
              overall == report.executive_summary[3]
          IN  /\ Len(report.key_insights) = Len(report.detailed_sections)
              /\ Len(report.detailed_sections) = Len(report.summary_data)
              /\ Len(report.summary_data) = overall.unique_classes
              /\ overall.unique_classes = Cardinality(ClassesIn(es))
              /\ TotalOfRows(report.summary_data) = overall.total_extractions
              /\ overall.total_extractions = Len(es)
              /\ \A i \in DOMAIN es :
                    Cardinality(ListingsOf(report.detailed_sections, es[i])) = 1
    /\ \A r \in Responded :
          /\ ResponseOf(r).extraction_count = Len(ResponseOf(r).extractions)
          /\ Len(ResponseOf(r).extractions) = Len(EntitiesOf(r))

\* A request on four entities of two classes, one of them mentioned twice,
\* has its report and its response: two lines, two sections, two rows, two
\* classes, and an extraction_count of 4.
C25_Witness ==
    \E r \in Responded :
        /\ Len(EntitiesOf(r)) = 4
        /\ \E i \in 1..4 :
              EntitiesOf(r)[i].attributes = <<"dict", (<<"mention_count">> :> <<"int", 2>>)>>
        /\ Len(ReportOf(r).key_insights) = 2
        /\ Len(ReportOf(r).detailed_sections) = 2
        /\ Len(ReportOf(r).summary_data) = 2
        /\ ReportOf(r).executive_summary[3].unique_classes = 2
        /\ ResponseOf(r).extraction_count = 4
        /\ Len(ResponseOf(r).extractions) = 4

\* The calls that passed validation: those with a job.
WithJob == {c \in DOMAIN calls : calls[c].job_id # <<"none">>}

\* The pipeline function step has been called for call c; it is the last
\* one called.
Ran(c, step) == \E i \in DOMAIN calls[c].steps : calls[c].steps[i] = step
LastRan(c, step) == calls[c].steps # <<>> /\ calls[c].steps[Len(calls[c].steps)] = step

\* The number of characters of s that are not whitespace.
NonBlank(s) == Cardinality({i \in 1..Len(s) : ~IsSpace(s[i])})

\* Call c is answered with the status of the handler's own HTTPException
\* for a short text; with the 500 of the catch-all handler.
AnsweredTooShort(c) ==
    /\ c \in Answered
    /\ StatusOf(c) = 400
    /\ calls[c].response.detail = <<"Document appears to be empty or too short">>
AnsweredAnalysisFailed(c) ==
    /\ c \in Answered
    /\ StatusOf(c) = 500
    /\ calls[c].response.detail[1] = "Analysis failed: "

\* What C26 says of the exceptions other than the one for a short text, and
\* of the classification.
OtherErrorsAndClassification(c, short) ==
    /\ Ran(c, "parse_document") /\ calls[c].content[1] = "raise" =>
          AnsweredAnalysisFailed(c)
    /\ c \in Answered /\ ~short =>
          \/ AnsweredAnalysisFailed(c)
                /\ \E step \in {"save_upload_file", "parse_document", "extract_insights",
                                "generate_pdf_report", "save_annotated_documents"} :
                      LastRan(c, step)
          \/ StatusOf(c) = 200 /\ LastRan(c, "cleanup_old_files")
    /\ Ran(c, "classify_document") =>
          /\ ~LastRan(c, "classify_document") \/ calls[c].pc = "classified"
          /\ calls[c].answer = <<"raise">> =>
                /\ calls[c].classification.document_type = "general"
                /\ calls[c].classification.confidence = 50
    /\ calls[c].pc = "classified" => ENABLED Extract(c)

\* C26 (as stated): once validation has passed, a parsed text that is empty
\* or has fewer than 50 non-blank characters is answered 400, the status of
\* the handler's own HTTPException; an exception of parsing, extraction,
\* report generation or saving is answered 500 "Analysis failed"; a failed
\* classification call fails nothing: the type is general, the confidence
\* 0.5, and the pipeline goes on.
C26_ErrorsByNonBlankCount ==
    \A c \in WithJob :
        LET short == /\ Ran(c, "parse_document")
                     /\ calls[c].content[1] = "text"
                     /\ NonBlank(calls[c].content[2]) < 50
        IN  /\ short => AnsweredTooShort(c)
            /\ OtherErrorsAndClassification(c, short)

\* C26 (amended): the text test is on the length of the text without its
\* leading and trailing whitespace, inner whitespace counted.
C26_ErrorsByStrippedLength ==
    \A c \in WithJob :
        LET short == /\ Ran(c, "parse_document")
                     /\ calls[c].content[1] = "text"
                     /\ Len(Strip(calls[c].content[2])) < 50
        IN  /\ short <=> AnsweredTooShort(c)
            /\ OtherErrorsAndClassification(c, short)

\* A call whose classification call raised has been answered 200 as a
\* general document with confidence 0.5, its text being an "x", 48 blanks
\* and an "x".
C26_Witness ==
    \E c \in DOMAIN calls :
        /\ calls[c].answer = <<"raise">>
        /\ calls[c].pc = "answered"
        /\ calls[c].response.status_code = 200
        /\ calls[c].response.document_type = "general"
        /\ calls[c].response.confidence = 50
        /\ Len(calls[c].text) = 50
        /\ {i \in 1..50 : calls[c].text[i] # 32} = {1, 50}

\* The positions of the group of e whose entity contributes an attribute
\* map: its attributes are a dict that is not empty.
ContributorsOf(e) ==
    {i \in MentionsOf(e) :
        given[i].attributes[1] = "dict" /\ DOMAIN given[i].attributes[2] # {}}

\* The attribute maps of the entities at the positions of P, in the order
\* of the stream.
RECURSIVE MapsAt(_)
MapsAt(P) ==
    IF P = {} THEN <<>>
    ELSE <<given[MinOf(P)].attributes[2]>> \o MapsAt(P \ {MinOf(P)})

\* C27: after the deduplication the attributes of every output entity are
\* a mapping, never None.  An entity whose attributes are None, empty or no
\* mapping contributes no map to its group (the merged attributes are those
\* merged from the other entities of the group) and is counted as a mention;
\* a group without any contributed map gets the empty map, with
\* mention_count when it has several mentions.
C27_AttributesAlwaysAMapping ==
    pc = "deduplicated" =>
        \A j \in 1..Len(Output) :
            LET n == Cardinality(MentionsOf(Output[j]))
                contributed == MergeAttributes(MapsAt(ContributorsOf(Output[j])))
                attrs == Output[j].attributes[2]
            IN  /\ Output[j].attributes[1] = "dict"
                /\ n > 1 => KeyMentionCount \in DOMAIN attrs
                            /\ attrs[KeyMentionCount] = IntVal(n)
                /\ n = 1 => attrs = contributed
                /\ \A k \in DOMAIN attrs \ {KeyMentionCount} :
                      k \in DOMAIN contributed /\ attrs[k] = contributed[k]
                /\ DOMAIN contributed \ {KeyMentionCount} \subseteq DOMAIN attrs
                /\ ContributorsOf(Output[j]) = {} =>
                      DOMAIN attrs = IF n > 1 THEN {KeyMentionCount} ELSE {}

\* [speaker "John" with attributes None, speaker " john\n" with the string
\* "x" for attributes, speaker "John" with {}] has deduplicated to one
\* entity whose attributes are {mention_count: 3}.
C27_Witness ==
    /\ pc = "deduplicated"
    /\ Len(given) = 3
    /\ given[1].extraction_text = <<74, 111, 104, 110>>
    /\ given[1].attributes = <<"none">>
    /\ given[2].extraction_text = <<32, 106, 111, 104, 110, 10>>
    /\ given[2].attributes = <<"str", <<120>>>>
    /\ given[3].extraction_text = <<74, 111, 104, 110>>
    /\ given[3].attributes = <<"dict", <<>>>>
    /\ Len(Output) = 1
    /\ Output[1].attributes = <<"dict", (<<"mention_count">> :> <<"int", 3>>)>>

\* The job directories a step removes from a root directory.
RemovedFrom(before, after) == DOMAIN before \ DOMAIN after

\* The report file of job j is on disk.
HasReport(root, j) == j \in DOMAIN root /\ "report.pdf" \in root[j].files

\* What C28 says of one step of the service.
CleanupStep ==
    \* only directories older than CLEANUP_HOURS are removed
    /\ \A j \in RemovedFrom(upload_dirs, upload_dirs') : now - upload_dirs[j].ctime > 24
    /\ \A j \in RemovedFrom(report_dirs, report_dirs') : now - report_dirs[j].ctime > 24
    /\ \A c \in DOMAIN calls :
          \* no directory, no file of a call in progress is removed, be the
          \* cleanup its own or that of the other call
          /\ calls[c].pc \notin {"received", "answered"} =>
                /\ c \notin RemovedFrom(upload_dirs, upload_dirs')
                /\ c \notin RemovedFrom(report_dirs, report_dirs')
                /\ HasReport(report_dirs, c) => HasReport(report_dirs', c)
          \* whatever the cleanup does, errors included, the call goes on
          \* to its answer, and the answer is 200
          /\ calls[c].pc = "data_saved" /\ calls'[c].pc # "data_saved" =>
                calls'[c].pc = "cleaned"
          /\ calls[c].pc = "cleaned" /\ calls'[c].pc # "cleaned" =>
                calls'[c].pc = "answered" /\ calls'[c].response.status_code = 200
          \* at the answer 200 for job c the report file is there, and
          \* GET /report/c answers 200
          /\ calls[c].pc # "answered" /\ calls'[c].pc = "answered"
             /\ calls'[c].response.status_code = 200 =>
                /\ calls'[c].response.job_id = c
                /\ HasReport(report_dirs', c)
                /\ GetReportStatus(report_dirs', c) = 200
    \* a GET answers 404 only for a job whose report file is not there
    /\ fetched' # fetched =>
          (fetched'[3] = 404 <=> ~HasReport(report_dirs, fetched'[2]))

\* C28: the cleanup at the end of a call removes only job directories older
\* than CLEANUP_HOURS, never a directory of the call that runs it or of the
\* other call in progress; so at every answer 200 for job J the report file
\* of J is on disk and GET /report/J is not answered 404; and an error
\* inside the cleanup never fails the call.
C28_CleanupSparesCallsInProgress == [][CleanupStep]_vars

\* At hour 25 the directories of the earlier job (written at hour 0) are
\* gone, call 1 has been answered 200 with its report on disk and fetched
\* with 200, and call 2 is still in progress with its upload on disk.
C28_Witness ==
    /\ now = 25
    /\ 0 \notin DOMAIN upload_dirs
    /\ 0 \notin DOMAIN report_dirs
    /\ calls[1].pc = "answered"
    /\ calls[1].response.status_code = 200
    /\ 1 \in DOMAIN report_dirs
    /\ report_dirs[1].files = {"report.pdf", "data.jsonl"}
    /\ fetched = <<"report", 1, 200>>
    /\ calls[2].pc = "extracted"
    /\ 2 \in DOMAIN upload_dirs

====
